---- MODULE Spec2Model ----
(***************************************************************************)
(* Model of the Mining-App data-access, aggregation and authentication     *)
(* layer: DatabaseManager (CSV repository), the entity models, the         *)
(* DataController / AuthController services and the Flask routes of app.py *)
(* that gate access to them.                                               *)
(*                                                                         *)
(* Strings that the code only compares for equality (user names, e-mail,   *)
(* role names, template names) are TLA+ strings.  Strings that the code    *)
(* takes apart (the Permissions column, a password hash) are sequences of  *)
(* one-character strings / tokens.                                         *)
(***************************************************************************)
EXTENDS Integers, Sequences, FiniteSets, TLC

VARIABLES users_file, roles_file, countries_file, minerals_file,
          production_stats_file, sites_file, users_backup_file,
          session, resp, hasher

vars == <<users_file, roles_file, countries_file, minerals_file,
          production_stats_file, sites_file, users_backup_file,
          session, resp, hasher>>

\* the files of the data folder
store == <<users_file, roles_file, countries_file, minerals_file,
           production_stats_file, sites_file, users_backup_file>>

(***************************************************************************)
(* Bounds of the model.                                                    *)
(***************************************************************************)
\* rows of the users table
MaxUsers == 2
\* rows of the roles table
MaxRoles == 1
\* rows of the countries / production_stats tables of the query model
MaxRows == 2
\* ids (CountryID, MineralID) range over 1..MaxId
MaxId == 2
\* length of a Permissions string of the permission model
MaxPermLen == 4

(***************************************************************************)
(* Results of calls: a value or a raised exception.                        *)
(***************************************************************************)
None == [none |-> TRUE]

Ret(v) == [exc |-> "none", val |-> v]

Raise(e) == [exc |-> e, val |-> None]

Raised(r) == r.exc # "none"

(***************************************************************************)
(* Backing files and pandas DataFrames.                                    *)
(*   kind "missing"  the file does not exist                               *)
(*   kind "empty"    a zero-byte file     (pandas: EmptyDataError)         *)
(*   kind "garbled"  an unparseable file  (pandas: ParserError)            *)
(*   kind "csv"      a header line naming `columns`, then `rows`           *)
(***************************************************************************)
MissingFile == [kind |-> "missing", columns |-> {}, rows |-> <<>>]

EmptyFile == [kind |-> "empty", columns |-> {}, rows |-> <<>>]

GarbledFile == [kind |-> "garbled", columns |-> {}, rows |-> <<>>]

Csv(cols, rws) == [kind |-> "csv", columns |-> cols, rows |-> rws]

\* hash_passwords.py has been started and waits for the operator's answer
\* pc: the statement the run is at; halted: "no", or what ended the run
\* early; answer: the line the operator typed; users_df: its DataFrame;
\* began_with: users.csv as the run found it; run: which run of the utility
\* this is; first_backup: what the first run that wrote a backup wrote
\* (MissingFile: none has)
NotRunning ==
    [pc |-> "idle", halted |-> "no", answer |-> "", users_df |-> <<>>,
     began_with |-> <<>>, run |-> 1,
     first_backup |-> [kind |-> "missing", columns |-> {}, rows |-> <<>>]]

\* pd.DataFrame(): no columns, no rows
EmptyDataFrame == [columns |-> {}, rows |-> <<>>]

\* what pandas yields for an empty cell: the float NaN, which is no str and
\* is truthy; written as a one-token sequence that no character string equals
NaN == <<"NaN">>

\* An id column with an empty cell is read as float64: its ids are kept as
\* the integers they equal, and the NaN of the empty cell as a number that
\* no id equals.
NaNId == -1

\* int(value): ValueError for NaN
int(value) == IF value = NaNId THEN Raise("ValueError") ELSE Ret(value)

(***************************************************************************)
(* What pd.read_csv makes of the cells of a column.  The cells of the      *)
(* PasswordHash column are kept as their text, a sequence of characters    *)
(* or tokens; the cells of the other columns are kept as the values they   *)
(* are read as.                                                            *)
(***************************************************************************)
\* texts read as a missing value: the empty cell and 'NA'
NaTexts == {<<>>, <<"N", "A">>}

Digits == {"0", "1", "2", "3", "4", "5", "6", "7", "8", "9"}

IsDigits(text) == text # <<>> /\ \A i \in 1..Len(text) : text[i] \in Digits

\* the digits of int(text)
RECURSIVE drop_zeros(_)
drop_zeros(text) ==
    IF Len(text) > 1 /\ Head(text) = "0" THEN drop_zeros(Tail(text)) ELSE text

\* the values of a column, each written as str() writes it (NaN apart):
\* a missing value is NaN; a column whose other cells are all digits is read
\* as int64, or as float64 when a value is missing; any other cell is
\* the string it is
parse_column(cells) ==
    LET missing == {i \in 1..Len(cells) : cells[i] \in NaTexts}
        numeric == /\ missing # 1..Len(cells)
                   /\ \A i \in (1..Len(cells)) \ missing : IsDigits(cells[i])
    IN  [i \in 1..Len(cells) |->
           IF i \in missing THEN NaN
           ELSE IF ~ numeric THEN cells[i]
           ELSE IF missing = {} THEN drop_zeros(cells[i])
           ELSE drop_zeros(cells[i]) \o <<".", "0">>]

\* the rows as read
parse_rows(columns, rws) ==
    IF "PasswordHash" \notin columns THEN rws
    ELSE [i \in 1..Len(rws) |->
            [rws[i] EXCEPT !.PasswordHash =
                parse_column([j \in 1..Len(rws) |-> rws[j].PasswordHash])[i]]]

\* pd.read_csv(path)
read_csv(file) ==
    CASE file.kind = "missing" -> Raise("FileNotFoundError")
      [] file.kind = "empty"   -> Raise("EmptyDataError")
      [] file.kind = "garbled" -> Raise("ParserError")
      [] OTHER -> Ret([columns |-> file.columns,
                       rows |-> parse_rows(file.columns, file.rows)])

\* the text df.to_csv writes for a value: nothing for NaN
to_csv_cell(value) == IF value = NaN THEN <<>> ELSE value

\* df.to_csv(path, index=False)
to_csv(df) ==
    Csv(df.columns,
        IF "PasswordHash" \notin df.columns THEN df.rows
        ELSE [i \in 1..Len(df.rows) |->
                [df.rows[i] EXCEPT !.PasswordHash = to_csv_cell(@)]])

\* str(value)
str(value) == IF value = NaN THEN <<"n", "a", "n">> ELSE value

\* a load without the except clause
load_file_uncaught(file) == read_csv(file)

\* try: return pd.read_csv(f)  except FileNotFoundError: return pd.DataFrame()
load_file(file) ==
    LET r == read_csv(file)
    IN  IF r.exc = "FileNotFoundError" THEN Ret(EmptyDataFrame) ELSE r

\* the users table as it was read once, at start-up: the documented file
load_users_at_start_up ==
    load_file([kind |-> "csv",
               columns |-> {"UserID", "Username", "PasswordHash", "RoleID", "Email"},
               rows |-> << [UserID |-> 1, Username |-> "alice",
                            PasswordHash |-> <<"pbkdf2$", "s1", "pw1">>,
                            RoleID |-> 1, Email |-> <<"user", 1, "@mine.example">>] >>])

load_users == load_file(users_file)

load_roles == load_file(roles_file)

load_countries == load_file(countries_file)

load_minerals == load_file(minerals_file)

load_production_stats == load_file(production_stats_file)

load_sites == load_file(sites_file)

\* df[df[col] == value]: KeyError when the frame has no such column
filter_eq(df, col, value) ==
    IF col \notin df.columns
    THEN Raise("KeyError")
    ELSE Ret([columns |-> df.columns,
              rows |-> SelectSeq(df.rows, LAMBDA r : r[col] = value)])

\* a lookup that returns the last matching row: sel.iloc[-1]
lookup_last(loaded, col, value) ==
    IF Raised(loaded) THEN loaded
    ELSE LET sel == filter_eq(loaded.val, col, value)
         IN  IF Raised(sel) THEN sel
             ELSE IF sel.val.rows # <<>>
                  THEN Ret([columns |-> sel.val.columns,
                            row |-> sel.val.rows[Len(sel.val.rows)]])
                  ELSE Ret(None)

\* the pattern of every get_*_by_* of DatabaseManager:
\*   df = load(); sel = df[df[col] == value]
\*   if not sel.empty: return sel.iloc[0]
\*   return None
\* A found row is returned with the columns of its frame.
lookup_first(loaded, col, value) ==
    IF Raised(loaded) THEN loaded
    ELSE LET sel == filter_eq(loaded.val, col, value)
         IN  IF Raised(sel) THEN sel
             ELSE IF sel.val.rows # <<>>
                  THEN Ret([columns |-> sel.val.columns, row |-> sel.val.rows[1]])
                  ELSE Ret(None)

get_user_by_username(username) == lookup_first(load_users, "Username", username)

get_role_by_id(role_id) == lookup_first(load_roles, "RoleID", role_id)

(***************************************************************************)
(* Column names of the backing store.                                      *)
(***************************************************************************)
UserCols == {"UserID", "Username", "PasswordHash", "RoleID", "Email"}

RoleCols == {"RoleID", "RoleName", "Permissions"}

CountryCols == {"CountryID", "CountryName", "GDP_BillionUSD",
                "MiningRevenue_BillionUSD", "KeyProjects"}

MineralCols == {"MineralID", "MineralName", "Description",
                "MarketPriceUSD_per_tonne"}

StatCols == {"StatID", "Year", "CountryID", "MineralID", "Production_tonnes",
             "ExportValue_BillionUSD"}

SiteCols == {"SiteID", "SiteName", "CountryID", "MineralID", "Latitude",
             "Longitude", "Production_tonnes"}

(***************************************************************************)
(* Password hashes (werkzeug): generate_password_hash(p) is the string     *)
(* "method$salt$digest"; here the token "pbkdf2$", the salt, then the      *)
(* hashed text.  A stored value that is no such string verifies nothing.   *)
(***************************************************************************)
generate_password_hash(salt, password) == <<"pbkdf2$", salt>> \o password

\* a comparison that looks at the method and not at the digest
verify_password_method_only(stored_hash, provided_password) ==
    /\ Len(stored_hash) >= 2
    /\ stored_hash[1] = "pbkdf2$"

\* check_password_hash(stored_hash, provided_password)
verify_password(stored_hash, provided_password) ==
    /\ Len(stored_hash) >= 2
    /\ stored_hash[1] = "pbkdf2$"
    /\ SubSeq(stored_hash, 3, Len(stored_hash)) = provided_password

(***************************************************************************)
(* Character strings that the code takes apart.                            *)
(***************************************************************************)
IsWhitespace(c) == c = " "

\* str.strip()
RECURSIVE lstrip(_)
lstrip(s) ==
    IF s # <<>> /\ IsWhitespace(Head(s)) THEN lstrip(Tail(s)) ELSE s

RECURSIVE rstrip(_)
rstrip(s) ==
    IF s # <<>> /\ IsWhitespace(s[Len(s)])
    THEN rstrip(SubSeq(s, 1, Len(s) - 1))
    ELSE s

strip(s) == rstrip(lstrip(s))

\* str.split(','): the pieces between the commas, empty pieces included;
\* ''.split(',') is ['']
RECURSIVE split_from(_, _)
split_from(s, piece) ==
    IF s = <<>> THEN <<piece>>
    ELSE IF Head(s) = "," THEN <<piece>> \o split_from(Tail(s), <<>>)
    ELSE split_from(Tail(s), Append(piece, Head(s)))

split(s) == split_from(s, <<>>)

(***************************************************************************)
(* models/role.py                                                          *)
(***************************************************************************)
Role(role_id, role_name, permissions) ==
    [role_id |-> role_id, role_name |-> role_name, permissions |-> permissions]

\* if self.permissions: return [p.strip() for p in self.permissions.split(',')]
\* return []
\* NaN is truthy and has no split: AttributeError.
get_permissions_list(role) ==
    IF role.permissions = <<>> THEN Ret(<<>>)
    ELSE IF role.permissions = NaN THEN Raise("AttributeError")
    ELSE LET pieces == split(role.permissions)
         IN  Ret([i \in 1..Len(pieces) |-> strip(pieces[i])])

\* return permission in permissions_list
has_permission(role, permission) ==
    LET l == get_permissions_list(role)
    IN  IF Raised(l) THEN l
        ELSE Ret(\E i \in 1..Len(l.val) : l.val[i] = permission)

(***************************************************************************)
(* models/user.py                                                          *)
(***************************************************************************)
User(user_id, username, password_hash, role_id, email) ==
    [user_id |-> user_id, username |-> username,
     password_hash |-> password_hash, role_id |-> role_id, email |-> email]

\* every attribute of the object, as vars(user) gives them
user_to_dict_whole(user) == user

user_to_dict(user) ==
    [user_id |-> user.user_id, username |-> user.username,
     role_id |-> user.role_id, email |-> user.email]

(***************************************************************************)
(* controllers/auth_controller.py                                          *)
(***************************************************************************)
\* row[col] for every col the constructor reads: KeyError when one is absent
has_cols(found, cols) == cols \subseteq found.columns

\* the row is subscripted before it is tested for None: TypeError
authenticate_user_subscripts_none(username, password) ==
    LET user_data == get_user_by_username(username)
    IN  IF Raised(user_data) THEN user_data
        ELSE IF user_data.val = None THEN Raise("TypeError")
        ELSE IF verify_password(user_data.val.row.PasswordHash, password)
             THEN LET r == user_data.val.row
                  IN  Ret(User(r.UserID, r.Username, r.PasswordHash,
                               r.RoleID, r.Email))
             ELSE Ret(None)

authenticate_user(username, password) ==
    LET user_data == get_user_by_username(username)
    IN  IF Raised(user_data) THEN user_data
        ELSE IF user_data.val = None THEN Ret(None)
        ELSE IF "PasswordHash" \notin user_data.val.columns THEN Raise("KeyError")
        ELSE IF verify_password(user_data.val.row.PasswordHash, password)
             THEN IF has_cols(user_data.val, UserCols)
                  THEN LET r == user_data.val.row
                       IN  Ret(User(r.UserID, r.Username, r.PasswordHash,
                                    r.RoleID, r.Email))
                  ELSE Raise("KeyError")
             ELSE Ret(None)

get_user_role(role_id) ==
    LET role_data == get_role_by_id(role_id)
    IN  IF Raised(role_data) THEN role_data
        ELSE IF role_data.val = None THEN Ret(None)
        ELSE IF has_cols(role_data.val, RoleCols)
             THEN LET r == role_data.val.row
                  IN  Ret(Role(r.RoleID, r.RoleName, r.Permissions))
             ELSE Raise("KeyError")

RequiredKeys == {"user_id", "username", "role_id"}

\* one required key is enough
validate_session_any_key(session_data) ==
    \E key \in RequiredKeys : key \in DOMAIN session_data

\* if not session_data: return False; every required key must be present
validate_session(session_data) ==
    /\ DOMAIN session_data # {}
    /\ \A key \in RequiredKeys : key \in DOMAIN session_data

\* an unknown role is waved through
check_permission_unknown_role_passes(role_id, required_permission) ==
    LET role == get_user_role(role_id)
    IN  IF Raised(role) THEN role
        ELSE IF role.val = None THEN Ret(TRUE)
        ELSE has_permission(role.val, required_permission)

check_permission(role_id, required_permission) ==
    LET role == get_user_role(role_id)
    IN  IF Raised(role) THEN role
        ELSE IF role.val = None THEN Ret(FALSE)
        ELSE has_permission(role.val, required_permission)

\* one User per row of the users frame, in row order
get_all_users ==
    LET l == load_users
    IN  IF Raised(l) THEN l
        ELSE IF l.val.rows = <<>> THEN Ret(<<>>)
        ELSE IF ~ (UserCols \subseteq l.val.columns) THEN Raise("KeyError")
        ELSE Ret([i \in 1..Len(l.val.rows) |->
                    LET r == l.val.rows[i]
                    IN  User(r.UserID, r.Username, r.PasswordHash,
                             r.RoleID, r.Email)])

(***************************************************************************)
(* models/country.py, mineral.py, production_stats.py, site.py: the        *)
(* entities, built from a row.                                             *)
(***************************************************************************)
Country(r) ==
    [country_id |-> r.CountryID, country_name |-> r.CountryName,
     gdp_billion_usd |-> r.GDP_BillionUSD,
     mining_revenue_billion_usd |-> r.MiningRevenue_BillionUSD,
     key_projects |-> r.KeyProjects]

Mineral(r) ==
    [mineral_id |-> r.MineralID, mineral_name |-> r.MineralName,
     description |-> r.Description,
     market_price_usd_per_tonne |-> r.MarketPriceUSD_per_tonne]

ProductionStats(r) ==
    [stat_id |-> r.StatID, year |-> r.Year, country_id |-> r.CountryID,
     mineral_id |-> r.MineralID, production_tonnes |-> r.Production_tonnes,
     export_value_billion_usd |-> r.ExportValue_BillionUSD]

Site(r) ==
    [site_id |-> r.SiteID, site_name |-> r.SiteName, country_id |-> r.CountryID,
     mineral_id |-> r.MineralID, latitude |-> r.Latitude,
     longitude |-> r.Longitude, production_tonnes |-> r.Production_tonnes]

(***************************************************************************)
(* controllers/data_controller.py                                          *)
(***************************************************************************)
\* the constructor call of each entity: Entity(row[...], ...)
Entity(kind, r) ==
    CASE kind = "country" -> Country(r)
      [] kind = "mineral" -> Mineral(r)
      [] kind = "stat" -> ProductionStats(r)
      [] kind = "site" -> Site(r)

\* the columns each constructor call reads
EntityCols(kind) ==
    CASE kind = "country" -> CountryCols
      [] kind = "mineral" -> MineralCols
      [] kind = "stat" -> StatCols
      [] kind = "site" -> SiteCols

\* the loop appending at the front
build_list_reversed(frame, kind) ==
    IF Raised(frame) THEN frame
    ELSE IF frame.val.rows = <<>> THEN Ret(<<>>)
    ELSE IF ~ (EntityCols(kind) \subseteq frame.val.columns) THEN Raise("KeyError")
    ELSE Ret([i \in 1..Len(frame.val.rows) |->
                Entity(kind, frame.val.rows[Len(frame.val.rows) + 1 - i])])

\* for _, row in df.iterrows(): list.append(Entity(row[...], ...))
\* No row, no column access; otherwise a column the constructor reads and
\* the frame lacks is a KeyError.
build_list(frame, kind) ==
    IF Raised(frame) THEN frame
    ELSE IF frame.val.rows = <<>> THEN Ret(<<>>)
    ELSE IF ~ (EntityCols(kind) \subseteq frame.val.columns) THEN Raise("KeyError")
    ELSE Ret([i \in 1..Len(frame.val.rows) |-> Entity(kind, frame.val.rows[i])])

\* data = db_manager.get_x_by_id(id); if data is None: return None
\* return Entity(data[...], ...)
build_one(found, kind) ==
    IF Raised(found) THEN found
    ELSE IF found.val = None THEN Ret(None)
    ELSE IF ~ has_cols(found.val, EntityCols(kind)) THEN Raise("KeyError")
    ELSE Ret(Entity(kind, found.val.row))

\* df = load(); sel = df[df[col] == value]; the entities of sel, in order
build_filtered(loaded, col, value, kind) ==
    IF Raised(loaded) THEN loaded
    ELSE build_list(filter_eq(loaded.val, col, value), kind)

get_all_countries == build_list(load_countries, "country")

get_country_by_id(country_id) ==
    build_one(lookup_first(load_countries, "CountryID", country_id), "country")

get_country_by_name(country_name) ==
    build_one(lookup_first(load_countries, "CountryName", country_name), "country")

get_all_minerals == build_list(load_minerals, "mineral")

get_mineral_by_id(mineral_id) ==
    build_one(lookup_first(load_minerals, "MineralID", mineral_id), "mineral")

get_all_production_stats == build_list(load_production_stats, "stat")

\* the filter taken on the other foreign key
get_production_by_country_on_mineral(country_id) ==
    build_filtered(load_production_stats, "MineralID", country_id, "stat")

get_production_by_country(country_id) ==
    build_filtered(load_production_stats, "CountryID", country_id, "stat")

get_production_by_mineral(mineral_id) ==
    build_filtered(load_production_stats, "MineralID", mineral_id, "stat")

get_all_sites == build_list(load_sites, "site")

get_sites_by_country(country_id) ==
    build_filtered(load_sites, "CountryID", country_id, "site")

get_sites_by_mineral(mineral_id) ==
    build_filtered(load_sites, "MineralID", mineral_id, "site")

(***************************************************************************)
(* controllers/visualization_controller.py: the data each chart or map     *)
(* is given.  Plotly and Folium are sinks: a chart is the prepared data.   *)
(***************************************************************************)
\* the first raised result of calls made one after the other, else none
first_raised(calls) ==
    IF \E i \in 1..Len(calls) : Raised(calls[i])
    THEN calls[CHOOSE i \in 1..Len(calls) :
                 /\ Raised(calls[i])
                 /\ \A j \in 1..(i - 1) : ~ Raised(calls[j])]
    ELSE Ret(None)

\* if mineral_id: by mineral; elif country_id: by country; else: all
\* (an absent argument is 0, which is falsy as None is)
chart_stats(mineral_id, country_id) ==
    IF mineral_id # 0 THEN get_production_by_mineral(mineral_id)
    ELSE IF country_id # 0 THEN get_production_by_country(country_id)
    ELSE get_all_production_stats

create_production_trend_chart(mineral_id, country_id) ==
    LET stats == chart_stats(mineral_id, country_id)
    IN  IF Raised(stats) THEN stats
        ELSE Ret([x |-> [i \in 1..Len(stats.val) |-> stats.val[i].year],
                  y |-> [i \in 1..Len(stats.val) |->
                           stats.val[i].production_tonnes]])

create_export_value_chart(mineral_id, country_id) ==
    LET stats == chart_stats(mineral_id, country_id)
    IN  IF Raised(stats) THEN stats
        ELSE Ret([x |-> [i \in 1..Len(stats.val) |-> stats.val[i].year],
                  y |-> [i \in 1..Len(stats.val) |->
                           stats.val[i].export_value_billion_usd]])

create_mineral_price_comparison_chart ==
    LET minerals == get_all_minerals
    IN  IF Raised(minerals) THEN minerals
        ELSE Ret([x |-> [i \in 1..Len(minerals.val) |->
                           minerals.val[i].mineral_name],
                  y |-> [i \in 1..Len(minerals.val) |->
                           minerals.val[i].market_price_usd_per_tonne]])

create_country_gdp_chart ==
    LET countries == get_all_countries
    IN  IF Raised(countries) THEN countries
        ELSE Ret([x |-> [i \in 1..Len(countries.val) |->
                           countries.val[i].country_name],
                  y |-> [i \in 1..Len(countries.val) |->
                           countries.val[i].gdp_billion_usd]])

\* x.get_name() if x else 'Unknown'
name_or_unknown(found, field) ==
    IF found.val = None THEN "Unknown" ELSE found.val[field]

\* for each site, in order: its mineral looked up, then its country
site_lookups(sites) ==
    [k \in 1..(2 * Len(sites)) |->
       IF k % 2 = 1 THEN get_mineral_by_id(sites[(k + 1) \div 2].mineral_id)
       ELSE get_country_by_id(sites[k \div 2].country_id)]

sites_with_names(sites) ==
    [i \in 1..Len(sites) |->
       [site |-> sites[i],
        mineral_name |->
            name_or_unknown(get_mineral_by_id(sites[i].mineral_id), "mineral_name"),
        country_name |->
            name_or_unknown(get_country_by_id(sites[i].country_id), "country_name")]]

create_mining_sites_map ==
    LET sites == get_all_sites
    IN  IF Raised(sites) THEN sites
        ELSE LET bad == first_raised(site_lookups(sites.val))
             IN  IF Raised(bad) THEN bad ELSE Ret(sites_with_names(sites.val))

create_country_sites_map(country_id) ==
    LET sites == get_sites_by_country(country_id)
    IN  IF Raised(sites) THEN sites
        ELSE IF sites.val = <<>> THEN Ret(<<>>)
        ELSE LET lookups == [i \in 1..Len(sites.val) |->
                               get_mineral_by_id(sites.val[i].mineral_id)]
                 bad == first_raised(lookups)
             IN  IF Raised(bad) THEN bad
                 ELSE Ret([i \in 1..Len(sites.val) |->
                            [site |-> sites.val[i],
                             mineral_name |->
                                 name_or_unknown(lookups[i], "mineral_name")]])

(***************************************************************************)
(* app.py: the session, the responses and the routes.                      *)
(* A response records the route and its arguments, whether the route's     *)
(* own body ran, and what the client gets: a rendered template with its    *)
(* data, a redirect, or the 500 page of an uncaught exception; flash is    *)
(* the message flashed by the request.                                     *)
(***************************************************************************)
EmptySession == [k \in {} |-> None]

\* session.get(key, default)
session_get(key, default) ==
    IF key \in DOMAIN session THEN session[key] ELSE default

\* session[k] = v for every k of upd
dict_update(d, upd) ==
    [k \in DOMAIN d \cup DOMAIN upd |-> IF k \in DOMAIN upd THEN upd[k] ELSE d[k]]

Response(route, args, status, target, flash_msg, data) ==
    [route |-> route, args |-> args, status |-> status, target |-> target,
     flash |-> flash_msg, body |-> TRUE, data |-> data]

render_template(route, args, template, data) ==
    Response(route, args, "render", template, <<>>, data)

redirect(route, args, target, flash_msg) ==
    Response(route, args, "redirect", target, flash_msg, None)

\* an exception no handler catches: errorhandler(500) answers
internal_server_error(route, args, raised) ==
    Response(route, args, "error500", raised.exc, <<>>, None)

\* what every template is given of the session
who == [username |-> session_get("username", None),
        role_name |-> session_get("role_name", None)]

\* a decorator that forgets the test
login_required_unchecked(route, args, f) ==
    /\ resp' = f
    /\ UNCHANGED <<session, store, hasher>>

\* a decorator that also looks the user of the session up in the store
login_required_revalidating(route, args, f) ==
    /\ resp' = IF \/ "user_id" \notin DOMAIN session
                  \/ Raised(get_user_by_username(session_get("username", "")))
                  \/ get_user_by_username(session_get("username", "")).val = None
               THEN [redirect(route, args, "login",
                              <<"Please log in to access this page.">>)
                     EXCEPT !.body = FALSE]
               ELSE f
    /\ UNCHANGED <<session, store, hasher>>

\* def decorated_function: if 'user_id' not in session: flash; redirect(login)
\*                         return f(*args, **kwargs)
login_required(route, args, f) ==
    /\ resp' = IF "user_id" \notin DOMAIN session
               THEN [redirect(route, args, "login",
                              <<"Please log in to access this page.">>)
                     EXCEPT !.body = FALSE]
               ELSE f
    /\ UNCHANGED <<session, store, hasher>>

\* The decorator named at app.py:275, whose definition the sources lack:
\* the role of the session must hold the permission, else the request is
\* sent back to the dashboard.
permission_required(permission, route, args, f) ==
    LET allowed == check_permission(session_get("role_id", 0), permission)
    IN  IF Raised(allowed) THEN
            [internal_server_error(route, args, allowed) EXCEPT !.body = FALSE]
        ELSE IF ~ allowed.val THEN
            [redirect(route, args, "dashboard",
                      <<"You do not have permission to access this page.">>)
             EXCEPT !.body = FALSE]
        ELSE f

\* GET / 
index ==
    /\ resp' = IF "user_id" \in DOMAIN session
               THEN redirect("index", <<>>, "dashboard", <<>>)
               ELSE redirect("index", <<>>, "login", <<>>)
    /\ UNCHANGED <<session, store, hasher>>

\* GET /login
login_get ==
    /\ resp' = render_template("login", <<"GET">>, "login.html", None)
    /\ UNCHANGED <<session, store, hasher>>

InvalidLogin == <<"Invalid username or password. Please try again.">>

\* the five assignments of app.py:78-82, in order, each with the value its
\* conversion gives or the exception it raises
session_writes(user, role) ==
    << <<"user_id", int(user.user_id)>>,
       <<"username", Ret(user.username)>>,
       <<"role_id", int(user.role_id)>>,
       <<"role_name", Ret(IF role = None THEN "Unknown" ELSE role.role_name)>>,
       <<"email", Ret(user.email)>> >>

\* session[key] = value for each write in turn, up to the first that raises
RECURSIVE session_set_all(_, _)
session_set_all(d, writes) ==
    IF writes = <<>> THEN [session |-> d, raised |-> Ret(None)]
    ELSE IF Raised(Head(writes)[2]) THEN [session |-> d, raised |-> Head(writes)[2]]
    ELSE session_set_all(
             dict_update(d, [key \in {Head(writes)[1]} |-> Head(writes)[2].val]),
             Tail(writes))

\* POST /login
\* propagate_exceptions: Flask's PROPAGATE_EXCEPTIONS.  It is on under
\* app.run(debug=True), where an exception leaves the application and no
\* session cookie is sent; it is off under a WSGI server, where the 500
\* handler answers and the response carries the session as written so far.
login_post(username, password, propagate_exceptions) ==
    LET args == <<"POST", username, password>>
        user == authenticate_user(username, password)
        role == get_user_role(user.val.role_id)
    IN  IF Raised(user) THEN
            /\ resp' = internal_server_error("login", args, user)
            /\ UNCHANGED <<session, store, hasher>>
        ELSE IF user.val = None THEN
            /\ resp' = Response("login", args, "render", "login.html",
                                InvalidLogin, None)
            /\ UNCHANGED <<session, store, hasher>>
        ELSE IF Raised(role) THEN
            /\ resp' = internal_server_error("login", args, role)
            /\ UNCHANGED <<session, store, hasher>>
        ELSE
            LET written == session_set_all(session, session_writes(user.val, role.val))
            IN  IF Raised(written.raised) THEN
                    /\ session' = IF propagate_exceptions THEN session
                                   ELSE written.session
                    /\ resp' = internal_server_error("login", args, written.raised)
                    /\ UNCHANGED <<store, hasher>>
                ELSE
                    /\ session' = written.session
                    /\ resp' = redirect("login", args, "dashboard",
                                        <<"Welcome, ", user.val.username, "!">>)
                    /\ UNCHANGED <<store, hasher>>

\* GET /logout
logout ==
    /\ session' = EmptySession
    /\ resp' = redirect("logout", <<>>, "login",
                        <<"Goodbye, ", session_get("username", "User"),
                          "! You have been logged out.">>)
    /\ UNCHANGED <<store, hasher>>

(***************************************************************************)
(* app.py: the bodies of the protected routes, as the response each gives. *)
(***************************************************************************)
\* the body's calls made in order: the 500 page of the first that raises,
\* else the rendered page
after_calls(route, args, calls, page) ==
    LET bad == first_raised(calls)
    IN  IF Raised(bad) THEN internal_server_error(route, args, bad) ELSE page

dashboard_body ==
    LET countries == get_all_countries
        minerals == get_all_minerals
        sites == get_all_sites
    IN  after_calls("dashboard", <<>>, <<countries, minerals, sites>>,
            render_template("dashboard", <<>>, "dashboard.html",
                [who |-> who,
                 countries_count |-> Len(countries.val),
                 minerals_count |-> Len(minerals.val),
                 sites_count |-> Len(sites.val)]))

minerals_body ==
    LET minerals_list == get_all_minerals
    IN  after_calls("minerals", <<>>, <<minerals_list>>,
            render_template("minerals", <<>>, "minerals.html",
                [who |-> who, minerals |-> minerals_list.val]))

\* app.py:150 tests the name Mineral, which app.py never binds: NameError
mineral_detail_body(mineral_id) ==
    LET mineral == get_mineral_by_id(mineral_id)
    IN  after_calls("mineral_detail", <<mineral_id>>, <<mineral>>,
            internal_server_error("mineral_detail", <<mineral_id>>,
                                  Raise("NameError")))

countries_body ==
    LET countries_list == get_all_countries
    IN  after_calls("countries", <<>>, <<countries_list>>,
            render_template("countries", <<>>, "countries.html",
                [who |-> who, countries |-> countries_list.val]))

country_detail_body(country_id) ==
    LET args == <<country_id>>
        country == get_country_by_id(country_id)
        production_stats == get_production_by_country(country_id)
        sites == get_sites_by_country(country_id)
        trend == IF production_stats.val # <<>>
                 THEN create_production_trend_chart(0, country_id) ELSE Ret(None)
        export == IF production_stats.val # <<>>
                  THEN create_export_value_chart(0, country_id) ELSE Ret(None)
        country_map == IF sites.val # <<>>
                       THEN create_country_sites_map(country_id) ELSE Ret(None)
    IN  IF Raised(country) THEN internal_server_error("country_detail", args, country)
        ELSE IF country.val = None
        THEN redirect("country_detail", args, "countries", <<"Country not found.">>)
        ELSE IF Raised(production_stats)
        THEN internal_server_error("country_detail", args, production_stats)
        ELSE IF Raised(sites)
        THEN internal_server_error("country_detail", args, sites)
        ELSE after_calls("country_detail", args, <<trend, export, country_map>>,
                render_template("country_detail", args, "country_detail.html",
                    [who |-> who, country |-> country.val,
                     production_stats |-> production_stats.val,
                     sites |-> sites.val,
                     production_trend_chart |-> trend.val,
                     export_value_chart |-> export.val,
                     country_map |-> country_map.val]))

sites_body ==
    LET sites_list == get_all_sites
        sites_map == create_mining_sites_map
    IN  IF Raised(sites_list) THEN internal_server_error("sites", <<>>, sites_list)
        ELSE after_calls("sites", <<>>,
                site_lookups(sites_list.val) \o <<sites_map>>,
                render_template("sites", <<>>, "sites.html",
                    [who |-> who,
                     sites_data |-> sites_with_names(sites_list.val),
                     sites_map |-> sites_map.val]))

admin_users_body ==
    LET users == get_all_users
        roles == [i \in 1..Len(users.val) |-> get_user_role(users.val[i].role_id)]
    IN  IF Raised(users) THEN internal_server_error("admin_users", <<>>, users)
        ELSE after_calls("admin_users", <<>>, roles,
                render_template("admin_users", <<>>, "admin_users.html",
                    [who |-> who,
                     users_data |->
                        [i \in 1..Len(users.val) |->
                           [user |-> users.val[i],
                            role_name |-> name_or_unknown(roles[i], "role_name")]]]))

analytics_body ==
    LET mineral_price_chart == create_mineral_price_comparison_chart
        country_gdp_chart == create_country_gdp_chart
        production_trend_chart == create_production_trend_chart(0, 0)
        export_value_chart == create_export_value_chart(0, 0)
    IN  after_calls("analytics", <<>>,
            <<mineral_price_chart, country_gdp_chart, production_trend_chart,
              export_value_chart>>,
            render_template("analytics", <<>>, "analytics.html",
                [who |-> who,
                 mineral_price_chart |-> mineral_price_chart.val,
                 country_gdp_chart |-> country_gdp_chart.val,
                 production_trend_chart |-> production_trend_chart.val,
                 export_value_chart |-> export_value_chart.val]))

mining_map_body ==
    LET sites_map == create_mining_sites_map
    IN  after_calls("mining_map", <<>>, <<sites_map>>,
            render_template("mining_map", <<>>, "map.html",
                [who |-> who, sites_map |-> sites_map.val]))

ManageUsers == <<"m", "a", "n", "a", "g", "e", "_", "u", "s", "e", "r", "s">>

(***************************************************************************)
(* app.py: the protected routes, each behind login_required.               *)
(***************************************************************************)
dashboard == login_required("dashboard", <<>>, dashboard_body)

minerals == login_required("minerals", <<>>, minerals_body)

mineral_detail(mineral_id) ==
    login_required("mineral_detail", <<mineral_id>>, mineral_detail_body(mineral_id))

countries == login_required("countries", <<>>, countries_body)

country_detail(country_id) ==
    login_required("country_detail", <<country_id>>, country_detail_body(country_id))

sites == login_required("sites", <<>>, sites_body)

admin_users ==
    login_required("admin_users", <<>>,
        permission_required(ManageUsers, "admin_users", <<>>, admin_users_body))

analytics == login_required("analytics", <<>>, analytics_body)

mining_map == login_required("mining_map", <<>>, mining_map_body)

ProtectedRoutes == {"dashboard", "minerals", "mineral_detail", "countries",
                    "country_detail", "sites", "admin_users", "analytics",
                    "mining_map"}

(***************************************************************************)
(* The contents the store is drawn from.                                   *)
(***************************************************************************)
\* all sequences over S of length at most n
SeqsUpTo(S, n) == UNION {[1..k -> S] : k \in 0..n}

Usernames == {"alice", "bob"}

\* a user name no row of the store carries
NoUser == "nouser"

Passwords == {<<"pw1">>, <<"pw2">>}

Salt == "s1"

\* alice is given role 1, bob role 2
RoleOf(username) == IF username = "alice" THEN 1 ELSE 2

ViewReports == <<"v", "i", "e", "w", "_", "r", "e", "p", "o", "r", "t", "s">>

\* 'manage_users, view_reports'
AdminPermissions == ManageUsers \o <<",", " ">> \o ViewReports

EmailOf(i) == <<"user", i, "@mine.example">>

RoleNameOf(i) == IF i = 1 THEN "Administrator" ELSE "Investor"

\* users.csv after the hashing utility ran: row i carries UserID i
UserTables == SeqsUpTo([Username : Usernames, Password : Passwords], MaxUsers)

UserRows(t) ==
    [i \in 1..Len(t) |->
       [UserID |-> i, Username |-> t[i].Username,
        PasswordHash |-> generate_password_hash(Salt, t[i].Password),
        RoleID |-> RoleOf(t[i].Username), Email |-> EmailOf(i)]]

UserFiles == {MissingFile} \cup {Csv(UserCols, UserRows(t)) : t \in UserTables}

\* roles.csv: row i carries RoleID i; a role may have no permission at all
\* (an empty cell, read as NaN)
RoleTables == SeqsUpTo({AdminPermissions, ViewReports, NaN}, MaxRoles)

RoleRows(t) ==
    [i \in 1..Len(t) |->
       [RoleID |-> i, RoleName |-> RoleNameOf(i), Permissions |-> t[i]]]

RoleFiles == {MissingFile} \cup {Csv(RoleCols, RoleRows(t)) : t \in RoleTables}

SampleCountries ==
    Csv(CountryCols,
        << [CountryID |-> 1, CountryName |-> "South Africa", GDP_BillionUSD |-> 400,
            MiningRevenue_BillionUSD |-> 30, KeyProjects |-> "Bushveld"] >>)

SampleMinerals ==
    Csv(MineralCols,
        << [MineralID |-> 1, MineralName |-> "Cobalt", Description |-> "battery metal",
            MarketPriceUSD_per_tonne |-> 52000] >>)

SampleStats ==
    Csv(StatCols,
        << [StatID |-> 1, Year |-> 2023, CountryID |-> 1, MineralID |-> 1,
            Production_tonnes |-> 100, ExportValue_BillionUSD |-> 2] >>)

SampleSites ==
    Csv(SiteCols,
        << [SiteID |-> 1, SiteName |-> "Site A", CountryID |-> 1, MineralID |-> 2,
            Latitude |-> -26, Longitude |-> 28, Production_tonnes |-> 100] >>)

NoResponse == Response("none", <<>>, "none", "none", <<>>, None)

(***************************************************************************)
(* The web application: any sequence of requests of one client session     *)
(* against a store that the requests never write.                          *)
(***************************************************************************)
Init ==
    /\ users_file \in UserFiles
    /\ roles_file \in RoleFiles
    /\ countries_file = SampleCountries
    /\ minerals_file = SampleMinerals
    /\ production_stats_file = SampleStats
    /\ sites_file = SampleSites
    /\ users_backup_file = MissingFile
    /\ hasher = NotRunning
    /\ session = EmptySession
    /\ resp = NoResponse

Next ==
    \/ index
    \/ login_get
    \/ \E username \in Usernames \cup {NoUser}, password \in Passwords,
          propagate_exceptions \in BOOLEAN :
          login_post(username, password, propagate_exceptions)
    \/ logout
    \/ dashboard
    \/ minerals
    \/ \E mineral_id \in 1..MaxId : mineral_detail(mineral_id)
    \/ countries
    \/ \E country_id \in 1..MaxId : country_detail(country_id)
    \/ sites
    \/ admin_users
    \/ analytics
    \/ mining_map

Spec == Init /\ [][Next]_vars

(***************************************************************************)
(* Vocabulary of the properties, stated on the content of the store and    *)
(* not through the operations.                                             *)
(***************************************************************************)
LoginNames == Usernames \cup {NoUser}

UsersReadable == users_file.kind = "csv" /\ UserCols \subseteq users_file.columns

\* the positions of the rows of the users table that carry the user name
RowsNamed(username) ==
    {i \in 1..Len(users_file.rows) : users_file.rows[i].Username = username}

FirstRowNamed(username) ==
    CHOOSE i \in RowsNamed(username) : \A j \in RowsNamed(username) : i <= j

\* the stored value is a hash of this password
IsHashOf(stored_hash, password) ==
    /\ Len(stored_hash) >= 2
    /\ stored_hash = generate_password_hash(stored_hash[2], password)

UniqueUsernames ==
    \A username \in LoginNames : Cardinality(RowsNamed(username)) <= 1

\* the user name is in the store and the password is not the one of its
\* (first) row
ExistingWrong(username, password) ==
    /\ UsersReadable
    /\ RowsNamed(username) # {}
    /\ ~ IsHashOf(users_file.rows[FirstRowNamed(username)].PasswordHash, password)

UnknownUsername(username) == UsersReadable /\ RowsNamed(username) = {}

IsLoginPost(r) == r.route = "login" /\ Len(r.args) = 3

\* what the client sees of a response
Observable(r) == [status |-> r.status, target |-> r.target, flash |-> r.flash,
                  data |-> r.data]

DeniedLogin == [status |-> "render", target |-> "login.html",
                flash |-> InvalidLogin, data |-> None]

LoggedIn == "user_id" \in DOMAIN session

C2_UserIffRowVerifies ==
    IsLoginPost(resp) /\ UniqueUsernames =>
       LET u == resp.args[2]
           p == resp.args[3]
           rows == IF users_file.kind = "csv" THEN users_file.rows ELSE <<>>
           hits == {i \in 1..Len(rows) :
                      /\ rows[i].Username = u
                      /\ IsHashOf(rows[i].PasswordHash, p)}
           result == authenticate_user(u, p)
       IN  IF hits # {}
           THEN /\ ~ Raised(result)
                /\ result.val # None
                /\ \E i \in hits :
                      user_to_dict(result.val) =
                         [user_id |-> rows[i].UserID, username |-> rows[i].Username,
                          role_id |-> rows[i].RoleID, email |-> rows[i].Email]
           ELSE result = Ret(None)

\* C3: the body of a protected route runs only in a session that contains
\* 'user_id'; without it the request gets the redirect to the login page,
\* an answer that carries nothing read from the store.
C3_LoginGate ==
    resp.route \in ProtectedRoutes =>
       /\ resp.body => LoggedIn
       /\ ~ LoggedIn =>
             resp = [redirect(resp.route, resp.args, "login",
                              <<"Please log in to access this page.">>)
                     EXCEPT !.body = FALSE]

\* the dashboard was served to a logged-in session
C3_Witness ==
    /\ resp.route = "dashboard"
    /\ resp.body
    /\ resp.status = "render"
    /\ LoggedIn

\* the step is a login POST that the store accepts: the first row with the
\* user name carries a hash of the password
AcceptedLogin(r) ==
    /\ IsLoginPost(r)
    /\ UsersReadable
    /\ RowsNamed(r.args[2]) # {}
    /\ IsHashOf(users_file.rows[FirstRowNamed(r.args[2])].PasswordHash, r.args[3])

\* C4: the session becomes authenticated only by a login POST whose
\* credentials authenticate; a login that fails leaves the session as it
\* was; logout empties the session whatever it held; and while the session
\* is not authenticated every protected request is sent to the login page.
C4_SessionSteps ==
    [][ /\ (~ LoggedIn /\ LoggedIn') => AcceptedLogin(resp')
        /\ (IsLoginPost(resp') /\ ~ AcceptedLogin(resp')) => session' = session
        /\ (IsLoginPost(resp') /\ resp'.status # "redirect") => session' = session
        /\ resp'.route = "logout" => session' = EmptySession
        /\ (~ LoggedIn' /\ resp'.route \in ProtectedRoutes)
              => resp'.status = "redirect" /\ resp'.target = "login"
      ]_vars

\* a session that had logged in has just logged out
C4_Witness ==
    /\ resp.route = "logout"
    /\ users_backup_file = MissingFile
    /\ hasher = NotRunning
    /\ session = EmptySession
    /\ resp.flash[2] \in Usernames

\* s[i..j] is one of the pieces of s between commas (or the ends of s)
IsPiece(s, i, j) ==
    /\ 1 <= i /\ i <= j + 1 /\ j <= Len(s)
    /\ i = 1 \/ s[i - 1] = ","
    /\ j = Len(s) \/ s[j + 1] = ","
    /\ \A k \in i..j : s[k] # ","

\* t is s without the blanks at its two ends
IsTrimOf(t, s) ==
    /\ t = <<>> \/ (t[1] # " " /\ t[Len(t)] # " ")
    /\ \E a \in 0..Len(s) :
          /\ a + Len(t) <= Len(s)
          /\ \A k \in 1..Len(s) :
                IF a < k /\ k <= a + Len(t) THEN s[k] = t[k - a] ELSE s[k] = " "

\* the token is, case-sensitively and as a whole, one of the trimmed
\* comma-separated pieces of the non-empty permission string
HasToken(permissions, token) ==
    /\ permissions # <<>>
    /\ permissions # NaN
    /\ \E i \in 1..(Len(permissions) + 1), j \in 0..Len(permissions) :
          /\ IsPiece(permissions, i, j)
          /\ IsTrimOf(token, SubSeq(permissions, i, j))

\* the roles table is readable and the first row with the RoleID grants
\* the permission
RoleGrants(role_id, permission) ==
    /\ roles_file.kind = "csv"
    /\ RoleCols \subseteq roles_file.columns
    /\ \E i \in 1..Len(roles_file.rows) :
          /\ roles_file.rows[i].RoleID = role_id
          /\ \A j \in 1..(i - 1) : roles_file.rows[j].RoleID # role_id
          /\ HasToken(roles_file.rows[i].Permissions, permission)

Call(operation, args, result) ==
    [route |-> operation, args |-> args, result |-> result]

NoCall == Call("none", <<>>, Ret(None))

\* a call that first creates users.csv when it is missing
call_creating(operation, args, result) ==
    /\ resp' = Call(operation, args, result)
    /\ users_file' = IF users_file.kind = "missing"
                     THEN [kind |-> "csv", columns |-> {}, rows |-> <<>>]
                     ELSE users_file
    /\ UNCHANGED <<session, roles_file, countries_file, minerals_file,
                   production_stats_file, sites_file, users_backup_file, hasher>>

call(operation, args, result) ==
    /\ resp' = Call(operation, args, result)
    /\ UNCHANGED <<session, store, hasher>>

(***************************************************************************)
(* Permission checks over roles whose Permissions string is any short      *)
(* string of letters, commas and blanks, the documented example, or an     *)
(* empty cell.                                                             *)
(***************************************************************************)
PermChars == {"a", "A", ",", " "}

\* pandas reads an empty cell as NaN, never as ''
PermStrings ==
    (SeqsUpTo(PermChars, MaxPermLen) \ {<<>>}) \cup {AdminPermissions, NaN}

PermRoleFiles ==
    {Csv(RoleCols, <<>>)} \cup
    {Csv(RoleCols, <<[RoleID |-> 1, RoleName |-> RoleNameOf(1), Permissions |-> ps]>>) :
        ps \in PermStrings}

\* 'Manage_Users'
ManageUsersCapitalised ==
    <<"M", "a", "n", "a", "g", "e", "_", "U", "s", "e", "r", "s">>

AskedPermissions ==
    SeqsUpTo({"a", "A", " "}, 2) \cup {ManageUsers, ViewReports, ManageUsersCapitalised}

AskedRoleIds == {1, 2}

InitPerm ==
    /\ users_file = Csv(UserCols, <<>>)
    /\ roles_file \in PermRoleFiles
    /\ countries_file = SampleCountries
    /\ minerals_file = SampleMinerals
    /\ production_stats_file = SampleStats
    /\ sites_file = SampleSites
    /\ users_backup_file = MissingFile
    /\ hasher = NotRunning
    /\ session = EmptySession
    /\ resp = NoCall

call_check_permission(role_id, permission) ==
    call("check_permission", <<role_id, permission>>,
         check_permission(role_id, permission))

NextPerm ==
    \E role_id \in AskedRoleIds, permission \in AskedPermissions :
       call_check_permission(role_id, permission)

SpecPerm == InitPerm /\ [][NextPerm]_vars

\* the Permissions cell of the first role row with the id; NaN if none
PermissionsOf(role_id) ==
    IF \E i \in 1..Len(roles_file.rows) : roles_file.rows[i].RoleID = role_id
    THEN roles_file.rows[CHOOSE i \in 1..Len(roles_file.rows) :
            /\ roles_file.rows[i].RoleID = role_id
            /\ \A j \in 1..(i - 1) : roles_file.rows[j].RoleID # role_id].Permissions
    ELSE NaN

\* C5: check_permission returns False for a role id that no row carries, and
\* otherwise True exactly when the permission equals, case-sensitively and
\* as a whole, one of the trimmed comma-separated tokens of the role's
\* permission string; an empty or missing permission string grants nothing
\* and raises nothing.
C5_ExactToken ==
    resp.route = "check_permission" =>
       resp.result = Ret(RoleGrants(resp.args[1], resp.args[2]))

\* C5, apart from the empty cell: for every role whose Permissions cell holds
\* a string the result is the exact-token test, and for an unknown role id
\* it is False.
C5_ExactTokenOfStrings ==
    resp.route = "check_permission" /\ PermissionsOf(resp.args[1]) # NaN =>
       resp.result = Ret(RoleGrants(resp.args[1], resp.args[2]))

\* the documented example: 'manage_users, view_reports' grants manage_users
\* and view_reports and does not grant Manage_Users
C5_Example ==
    resp.route = "check_permission" /\ PermissionsOf(resp.args[1]) = AdminPermissions =>
       /\ resp.args[2] \in {ManageUsers, ViewReports} => resp.result = Ret(TRUE)
       /\ resp.args[2] = ManageUsersCapitalised => resp.result = Ret(FALSE)

(***************************************************************************)
(* The services over a store some of whose files are damaged: any subset   *)
(* of the six files is missing, zero bytes long, unparseable, or a CSV     *)
(* with other columns; the rest hold sample rows.                          *)
(***************************************************************************)
SampleUsers ==
    Csv(UserCols, UserRows(<<[Username |-> "alice", Password |-> <<"pw1">>]>>))

SampleRoles == Csv(RoleCols, RoleRows(<<AdminPermissions>>))

WrongColumnsFile == Csv({"Name"}, <<[Name |-> "x"]>>)

BrokenFiles == {MissingFile, EmptyFile, GarbledFile, WrongColumnsFile}

InitHealth ==
    \E broken \in BrokenFiles :
       /\ users_file \in {SampleUsers, broken}
       /\ roles_file \in {SampleRoles, broken}
       /\ countries_file \in {SampleCountries, broken}
       /\ minerals_file \in {SampleMinerals, broken}
       /\ production_stats_file \in {SampleStats, broken}
       /\ sites_file \in {SampleSites, broken}
       /\ users_backup_file = MissingFile
       /\ hasher = NotRunning
       /\ session = EmptySession
       /\ resp = NoCall

call_load_users == call("load_users", <<>>, load_users)

call_load_roles == call("load_roles", <<>>, load_roles)

call_load_countries == call("load_countries", <<>>, load_countries)

call_load_minerals == call("load_minerals", <<>>, load_minerals)

call_load_production_stats ==
    call("load_production_stats", <<>>, load_production_stats)

call_load_sites == call("load_sites", <<>>, load_sites)

call_get_all_users == call("get_all_users", <<>>, get_all_users)

call_get_all_countries == call("get_all_countries", <<>>, get_all_countries)

call_get_all_minerals == call("get_all_minerals", <<>>, get_all_minerals)

call_get_all_production_stats ==
    call("get_all_production_stats", <<>>, get_all_production_stats)

call_get_all_sites == call("get_all_sites", <<>>, get_all_sites)

call_get_user_by_username(username) ==
    call("get_user_by_username", <<username>>, get_user_by_username(username))

call_get_role_by_id(role_id) ==
    call("get_role_by_id", <<role_id>>, get_role_by_id(role_id))

call_get_country_by_id(country_id) ==
    call("get_country_by_id", <<country_id>>, get_country_by_id(country_id))

call_get_mineral_by_id(mineral_id) ==
    call("get_mineral_by_id", <<mineral_id>>, get_mineral_by_id(mineral_id))

call_get_country_by_name(country_name) ==
    call("get_country_by_name", <<country_name>>, get_country_by_name(country_name))

call_authenticate_user(username, password) ==
    call("authenticate_user", <<username, password>>,
         authenticate_user(username, password))

call_get_user_role(role_id) ==
    call("get_user_role", <<role_id>>, get_user_role(role_id))

call_get_production_by_country(country_id) ==
    call("get_production_by_country", <<country_id>>,
         get_production_by_country(country_id))

call_get_production_by_mineral(mineral_id) ==
    call("get_production_by_mineral", <<mineral_id>>,
         get_production_by_mineral(mineral_id))

call_get_sites_by_country(country_id) ==
    call("get_sites_by_country", <<country_id>>, get_sites_by_country(country_id))

call_get_sites_by_mineral(mineral_id) ==
    call("get_sites_by_mineral", <<mineral_id>>, get_sites_by_mineral(mineral_id))

CountryNames == {"South Africa", "Atlantis"}

NextHealth ==
    \/ call_load_users
    \/ call_load_roles
    \/ call_load_countries
    \/ call_load_minerals
    \/ call_load_production_stats
    \/ call_load_sites
    \/ call_get_all_users
    \/ call_get_all_countries
    \/ call_get_all_minerals
    \/ call_get_all_production_stats
    \/ call_get_all_sites
    \/ \E username \in LoginNames : call_get_user_by_username(username)
    \/ \E username \in LoginNames, password \in Passwords :
          call_authenticate_user(username, password)
    \/ \E country_name \in CountryNames : call_get_country_by_name(country_name)
    \/ \E id \in 1..MaxId :
          \/ call_get_role_by_id(id)
          \/ call_get_country_by_id(id)
          \/ call_get_mineral_by_id(id)
          \/ call_get_user_role(id)
          \/ call_check_permission(id, ManageUsers)
          \/ call_get_production_by_country(id)
          \/ call_get_production_by_mineral(id)
          \/ call_get_sites_by_country(id)
          \/ call_get_sites_by_mineral(id)

SpecHealth == InitHealth /\ [][NextHealth]_vars

LoadOps ==
    {"load_users", "load_roles", "load_countries", "load_minerals",
     "load_production_stats", "load_sites"}

GetAllOps ==
    {"get_all_users", "get_all_countries", "get_all_minerals",
     "get_all_production_stats", "get_all_sites"}

LookupOps ==
    {"get_user_by_username", "get_role_by_id", "get_country_by_id",
     "get_mineral_by_id", "get_country_by_name", "authenticate_user",
     "get_user_role"}

FilterOps ==
    {"get_production_by_country", "get_production_by_mineral",
     "get_sites_by_country", "get_sites_by_mineral"}

\* the file an operation reads
FileRead(operation) ==
    CASE operation \in {"load_users", "get_all_users", "get_user_by_username",
                        "authenticate_user"} -> users_file
      [] operation \in {"load_roles", "get_role_by_id", "get_user_role",
                        "check_permission"} -> roles_file
      [] operation \in {"load_countries", "get_all_countries", "get_country_by_id",
                        "get_country_by_name"} -> countries_file
      [] operation \in {"load_minerals", "get_all_minerals",
                        "get_mineral_by_id"} -> minerals_file
      [] operation \in {"load_production_stats", "get_all_production_stats",
                        "get_production_by_country",
                        "get_production_by_mineral"} -> production_stats_file
      [] operation \in {"load_sites", "get_all_sites", "get_sites_by_country",
                        "get_sites_by_mineral"} -> sites_file
      [] OTHER -> Csv({}, <<>>)

\* a load-all gave an empty sequence: a frame without rows, or an empty list
EmptyLoad(operation, result) ==
    /\ ~ Raised(result)
    /\ IF operation \in LoadOps THEN result.val.rows = <<>> ELSE result.val = <<>>

\* a lookup gave absent, a filter gave an empty list
AbsentResult(operation, result) ==
    CASE operation \in LookupOps -> result = Ret(None)
      [] operation = "check_permission" -> result = Ret(FALSE)
      [] operation \in FilterOps -> result = Ret(<<>>)
      [] OTHER -> TRUE

\* C7: when the file of an entity type is missing, every load_* and every
\* get_all_* on it returns an empty sequence and raises nothing.
C7_MissingLoadsEmpty ==
    resp.route \in LoadOps \cup GetAllOps /\ FileRead(resp.route) = MissingFile =>
       EmptyLoad(resp.route, resp.result)

C7_Witness ==
    /\ resp.route = "get_all_production_stats"
    /\ production_stats_file = MissingFile
    /\ resp.result = Ret(<<>>)

\* C8: when the file is missing, every point lookup yields None (False for
\* check_permission) and every foreign-key filter yields an empty list;
\* none of them raises.
C8_MissingLookupsAbsent ==
    /\ resp.route \in LookupOps \cup FilterOps \cup {"check_permission"}
    /\ FileRead(resp.route) = MissingFile
    => AbsentResult(resp.route, resp.result)

\* a file that exists but is unparseable, has no content, or lacks the
\* columns the entity is built from
Corrupt(file) == file \in {EmptyFile, GarbledFile, WrongColumnsFile}

\* C9: a file that exists but is corrupt degrades every load of its entity
\* type to an empty result; nothing is raised to the caller.
C9_CorruptLoadsEmpty ==
    resp.route \in LoadOps \cup GetAllOps /\ Corrupt(FileRead(resp.route)) =>
       EmptyLoad(resp.route, resp.result)

(***************************************************************************)
(* The query service over any small Countries and ProductionStats tables:  *)
(* the ids of the countries are any, repeated or absent, and each          *)
(* statistic names any country id and any mineral id, known or not; either *)
(* file may be missing.                                                    *)
(***************************************************************************)
CountryNameOf(id) == IF id = 1 THEN "South Africa" ELSE <<"Country", id>>

CountryTables == SeqsUpTo(1..MaxId, MaxRows)

CountryRows(t) ==
    [i \in 1..Len(t) |->
       [CountryID |-> t[i], CountryName |-> CountryNameOf(t[i]),
        GDP_BillionUSD |-> 100 * i, MiningRevenue_BillionUSD |-> 10 * i,
        KeyProjects |-> "Bushveld"]]

CountryFiles == {MissingFile} \cup {Csv(CountryCols, CountryRows(t)) : t \in CountryTables}

StatTables == SeqsUpTo([CountryID : 1..MaxId, MineralID : 1..MaxId], MaxRows)

\* row i carries StatID i
StatRows(t) ==
    [i \in 1..Len(t) |->
       [StatID |-> i, Year |-> 2020 + i, CountryID |-> t[i].CountryID,
        MineralID |-> t[i].MineralID, Production_tonnes |-> 100 * i,
        ExportValue_BillionUSD |-> i]]

StatFiles == {MissingFile} \cup {Csv(StatCols, StatRows(t)) : t \in StatTables}

InitQuery ==
    /\ users_file = SampleUsers
    /\ roles_file = SampleRoles
    /\ countries_file \in CountryFiles
    /\ minerals_file = SampleMinerals
    /\ production_stats_file \in StatFiles
    /\ sites_file = SampleSites
    /\ users_backup_file = MissingFile
    /\ hasher = NotRunning
    /\ session = EmptySession
    /\ resp = NoCall

NextQuery ==
    \/ call_get_all_countries
    \/ call_get_all_production_stats
    \/ \E id \in 1..MaxId : call_get_production_by_country(id)

SpecQuery == InitQuery /\ [][NextQuery]_vars

\* the elements of what a call returned; none when it raised
Returned(result) == IF Raised(result) THEN <<>> ELSE result.val

\* the ids of the countries get_all_countries returns
KnownCountryIds ==
    {Returned(get_all_countries)[i].country_id :
        i \in 1..Len(Returned(get_all_countries))}

\* what get_production_by_country returns for each country id
ByCountry == [c \in 1..MaxId |-> Returned(get_production_by_country(c))]

AllStats == Returned(get_all_production_stats)

\* how often a result holds the statistic
TimesIn(stat, part) == Cardinality({k \in 1..Len(part) : part[k] = stat})

\* how often the results parts[c], c over the ids, hold it all together
TimesInAll(stat, parts, ids) ==
    Cardinality({ck \in ids \X (1..MaxRows) :
                    /\ ck[2] <= Len(parts[ck[1]])
                    /\ parts[ck[1]][ck[2]] = stat})

\* C10 as stated: for every content of the store, every row of
\* get_all_production_stats is in exactly one of the results of
\* get_production_by_country(c), c over the countries of the Countries table.
C10_PartitionOfAll ==
    resp.route = "get_production_by_country" =>
       LET all == AllStats
           parts == ByCountry
           known == KnownCountryIds
       IN  \A i \in 1..Len(all) : TimesInAll(all[i], parts, known) = 1

\* C10, amended: get_production_by_country(c) returns, once each, exactly the
\* rows of get_all_production_stats whose country id is c; so over the
\* distinct ids of the Countries table the results are disjoint and hold
\* every row whose country id is in the table once, and a row whose country
\* id is not in the table is in none of them.
C10_PartitionOfKnown ==
    LET all == AllStats
        parts == ByCountry
        known == KnownCountryIds
    IN  /\ \A i \in 1..Len(all), c \in 1..MaxId :
              TimesIn(all[i], parts[c]) = IF all[i].country_id = c THEN 1 ELSE 0
        /\ \A c \in 1..MaxId :
              \A k \in 1..Len(parts[c]) :
                 \E i \in 1..Len(all) : all[i] = parts[c][k]
        /\ \A i \in 1..Len(all) :
              TimesInAll(all[i], parts, known) =
                 IF all[i].country_id \in known THEN 1 ELSE 0

\* a statistic of a country of the table was returned by the call for that
\* country, while another statistic names a country the table does not hold
C10_Witness ==
    /\ resp.route = "get_production_by_country"
    /\ resp.args[1] \in KnownCountryIds
    /\ ~ Raised(resp.result) /\ resp.result.val # <<>>
    /\ \E i \in 1..Len(AllStats) : AllStats[i].country_id \notin KnownCountryIds

(***************************************************************************)
(* The query service over one table at a time: the Countries, Minerals,    *)
(* ProductionStats or Sites file is missing or holds any small table, ids  *)
(* repeated or absent, foreign keys known or not; the other files hold the *)
(* sample rows.                                                            *)
(***************************************************************************)
\* 'Gh', 'gh' and ' Gh'
CountryNameChoices == {<<"G", "h">>, <<"g", "h">>, <<" ", "G", "h">>}

NamedCountryTables ==
    SeqsUpTo([CountryID : 1..MaxId, CountryName : CountryNameChoices], MaxRows)

NamedCountryRows(t) ==
    [i \in 1..Len(t) |->
       [CountryID |-> t[i].CountryID, CountryName |-> t[i].CountryName,
        GDP_BillionUSD |-> 100 * i, MiningRevenue_BillionUSD |-> 10 * i,
        KeyProjects |-> <<"Project", i>>]]

NamedCountryFiles ==
    {MissingFile} \cup {Csv(CountryCols, NamedCountryRows(t)) : t \in NamedCountryTables}

MineralTables == SeqsUpTo(1..MaxId, MaxRows)

MineralRows(t) ==
    [i \in 1..Len(t) |->
       [MineralID |-> t[i], MineralName |-> <<"Mineral", i>>,
        Description |-> <<"Description", i>>,
        MarketPriceUSD_per_tonne |-> 1000 * i]]

MineralFiles == {MissingFile} \cup {Csv(MineralCols, MineralRows(t)) : t \in MineralTables}

SiteTables == SeqsUpTo([CountryID : 1..MaxId, MineralID : 1..MaxId], MaxRows)

\* row i carries SiteID i
SiteRows(t) ==
    [i \in 1..Len(t) |->
       [SiteID |-> i, SiteName |-> <<"Site", i>>, CountryID |-> t[i].CountryID,
        MineralID |-> t[i].MineralID, Latitude |-> 0 - i, Longitude |-> i,
        Production_tonnes |-> 10 * i]]

SiteFiles == {MissingFile} \cup {Csv(SiteCols, SiteRows(t)) : t \in SiteTables}

\* the one country 'Gh'
SampleNamedCountries ==
    Csv(CountryCols,
        NamedCountryRows(<<[CountryID |-> 1, CountryName |-> <<"G", "h">>]>>))

TableNames == {"countries", "minerals", "production_stats", "sites"}

InitTables ==
    \E varied \in TableNames :
       /\ users_file = SampleUsers
       /\ roles_file = SampleRoles
       /\ countries_file \in
             IF varied = "countries" THEN NamedCountryFiles
                                      ELSE {SampleNamedCountries}
       /\ minerals_file \in
             IF varied = "minerals" THEN MineralFiles ELSE {SampleMinerals}
       /\ production_stats_file \in
             IF varied = "production_stats" THEN StatFiles ELSE {SampleStats}
       /\ sites_file \in IF varied = "sites" THEN SiteFiles ELSE {SampleSites}
       /\ users_backup_file = MissingFile
       /\ hasher = NotRunning
       /\ session = EmptySession
       /\ resp = NoCall

NextTables ==
    \/ call_get_all_countries
    \/ call_get_all_minerals
    \/ call_get_all_production_stats
    \/ call_get_all_sites
    \/ \E country_name \in CountryNameChoices : call_get_country_by_name(country_name)
    \/ \E id \in 1..MaxId :
          \/ call_get_country_by_id(id)
          \/ call_get_mineral_by_id(id)
          \/ call_get_production_by_country(id)
          \/ call_get_production_by_mineral(id)
          \/ call_get_sites_by_country(id)
          \/ call_get_sites_by_mineral(id)

SpecTables == InitTables /\ [][NextTables]_vars

\* the entity kind an operation builds
KindOf(operation) ==
    CASE operation \in {"get_all_countries", "get_country_by_id",
                        "get_country_by_name"} -> "country"
      [] operation \in {"get_all_minerals", "get_mineral_by_id"} -> "mineral"
      [] operation \in {"get_all_production_stats", "get_production_by_country",
                        "get_production_by_mineral"} -> "stat"
      [] OTHER -> "site"

\* the column an operation compares with its argument
KeyOf(operation) ==
    CASE operation \in {"get_production_by_country", "get_sites_by_country",
                        "get_country_by_id"} -> "CountryID"
      [] operation = "get_country_by_name" -> "CountryName"
      [] OTHER -> "MineralID"

\* the positions of the rows whose column col holds value
Matches(rows, col, value) == {i \in 1..Len(rows) : rows[i][col] = value}

\* list holds, in source order, one entity for each matching row and
\* nothing else: its k-th element is built from the k-th matching row
IsSelection(list, rows, col, value, kind) ==
    /\ Len(list) = Cardinality(Matches(rows, col, value))
    /\ \A i \in Matches(rows, col, value) :
          list[Cardinality({j \in Matches(rows, col, value) : j <= i})] =
             Entity(kind, rows[i])

\* C11: each of the four foreign-key filters returns exactly the rows whose
\* CountryID (resp. MineralID) equals the id, as entities, in source order,
\* and an empty list when no row matches.
C11_FilterSelects ==
    resp.route \in FilterOps =>
       /\ ~ Raised(resp.result)
       /\ IsSelection(resp.result.val, FileRead(resp.route).rows,
                      KeyOf(resp.route), resp.args[1], KindOf(resp.route))

\* C11 over a table that exists: the same, for every file that is there
C11_FilterSelectsOfTable ==
    resp.route \in FilterOps /\ FileRead(resp.route) # MissingFile =>
       /\ ~ Raised(resp.result)
       /\ IsSelection(resp.result.val, FileRead(resp.route).rows,
                      KeyOf(resp.route), resp.args[1], KindOf(resp.route))

(***************************************************************************)
(* Numbers: a quotient is kept exact, as a fraction in lowest terms with a *)
(* positive denominator.                                                   *)
(***************************************************************************)
Abs(n) == IF n < 0 THEN 0 - n ELSE n

RECURSIVE gcd(_, _)
gcd(a, b) == IF b = 0 THEN a ELSE gcd(b, a % b)

Fraction(n, d) ==
    [num |-> n \div gcd(Abs(n), d), den |-> d \div gcd(Abs(n), d)]

\* 0.0
Zero == [num |-> 0, den |-> 1]

\* a / b
truediv(a, b) ==
    IF b = 0 THEN Raise("ZeroDivisionError")
    ELSE IF b > 0 THEN Ret(Fraction(a, b))
    ELSE Ret(Fraction(0 - a, 0 - b))

\* q * n, q the result of a division
times(q, n) == IF Raised(q) THEN q ELSE Ret(Fraction(q.val.num * n, q.val.den))

(***************************************************************************)
(* models/country.py, mineral.py, production_stats.py, site.py: methods    *)
(***************************************************************************)
\* the percentage computed without the guard
get_mining_contribution_percentage_unguarded(country) ==
    times(truediv(country.mining_revenue_billion_usd, country.gdp_billion_usd), 100)

get_mining_contribution_percentage(country) ==
    IF country.gdp_billion_usd > 0
    THEN times(truediv(country.mining_revenue_billion_usd, country.gdp_billion_usd), 100)
    ELSE Ret(Zero)

country_to_dict(country) ==
    LET pct == get_mining_contribution_percentage(country)
    IN  IF Raised(pct) THEN pct
        ELSE Ret([country_id |-> country.country_id,
                  country_name |-> country.country_name,
                  gdp_billion_usd |-> country.gdp_billion_usd,
                  mining_revenue_billion_usd |-> country.mining_revenue_billion_usd,
                  key_projects |-> country.key_projects,
                  mining_contribution_pct |-> pct.val])

mineral_to_dict(mineral) ==
    Ret([mineral_id |-> mineral.mineral_id, mineral_name |-> mineral.mineral_name,
         description |-> mineral.description,
         market_price_usd_per_tonne |-> mineral.market_price_usd_per_tonne])

\* entity.to_dict() of what a lookup returned
to_dict_of(operation, entity) ==
    IF KindOf(operation) = "country" THEN country_to_dict(entity)
    ELSE mineral_to_dict(entity)

\* the stored fields of the dictionary are those of the row
SameStoredFields(operation, d, row) ==
    IF KindOf(operation) = "country"
    THEN /\ d.country_id = row.CountryID
         /\ d.country_name = row.CountryName
         /\ d.gdp_billion_usd = row.GDP_BillionUSD
         /\ d.mining_revenue_billion_usd = row.MiningRevenue_BillionUSD
         /\ d.key_projects = row.KeyProjects
    ELSE /\ d.mineral_id = row.MineralID
         /\ d.mineral_name = row.MineralName
         /\ d.description = row.Description
         /\ d.market_price_usd_per_tonne = row.MarketPriceUSD_per_tonne

\* the first row, in source order, whose column col holds value
FirstMatch(rows, col, value) ==
    rows[CHOOSE i \in Matches(rows, col, value) :
            \A j \in Matches(rows, col, value) : i <= j]

ByIdOps == {"get_country_by_id", "get_mineral_by_id"}

\* the lookup returned an entity whose to_dict reproduces the stored fields
\* of the row with the id (the first such row), or None when no row has it
RoundTrips(operation, id, result, rows) ==
    IF Matches(rows, KeyOf(operation), id) = {}
    THEN result = Ret(None)
    ELSE /\ ~ Raised(result)
         /\ result.val # None
         /\ ~ Raised(to_dict_of(operation, result.val))
         /\ SameStoredFields(operation, to_dict_of(operation, result.val).val,
                             FirstMatch(rows, KeyOf(operation), id))

\* C12: for every id present in the Countries (resp. Minerals) table,
\* get_country_by_id (resp. get_mineral_by_id) returns an entity whose
\* to_dict stored fields equal the fields of the stored row with that id;
\* for every id not present it returns None and raises nothing.
C12_RoundTrip ==
    resp.route \in ByIdOps =>
       RoundTrips(resp.route, resp.args[1], resp.result, FileRead(resp.route).rows)

\* C12 over a table that exists
C12_RoundTripOfTable ==
    resp.route \in ByIdOps /\ FileRead(resp.route) # MissingFile =>
       RoundTrips(resp.route, resp.args[1], resp.result, FileRead(resp.route).rows)

\* an id that two rows carry was looked up
C12_RepeatedIdLookedUp ==
    /\ resp.route \in ByIdOps
    /\ Cardinality(Matches(FileRead(resp.route).rows, KeyOf(resp.route),
                           resp.args[1])) > 1

\* str.lower on the letters the names are written with
lower(s) == [i \in 1..Len(s) |-> IF s[i] = "G" THEN "g" ELSE s[i]]

\* the names are the same up to case and surrounding whitespace, not the same
NearMiss(a, b) == a # b /\ lower(strip(a)) = lower(strip(b))

\* the entity of the first row carrying the name exactly, None without one
IsFirstNamed(result, rows, name) ==
    IF Matches(rows, "CountryName", name) = {}
    THEN result = Ret(None)
    ELSE result = Ret(Entity("country", FirstMatch(rows, "CountryName", name)))

\* C13: get_country_by_name(name) returns the entity of the first row, in
\* source order, whose CountryName equals name exactly and case-sensitively,
\* and None when no row matches; a name differing only in case or
\* surrounding whitespace does not match.
C13_FirstExactName ==
    resp.route = "get_country_by_name" =>
       IsFirstNamed(resp.result, countries_file.rows, resp.args[1])

\* C13 over a table that exists
C13_FirstExactNameOfTable ==
    resp.route = "get_country_by_name" /\ countries_file # MissingFile =>
       IsFirstNamed(resp.result, countries_file.rows, resp.args[1])

\* a name was looked up that only rows differing in case or whitespace
\* carry, and None came back
C13_NearMissAbsent ==
    /\ resp.route = "get_country_by_name"
    /\ \E i \in 1..Len(countries_file.rows) :
          NearMiss(countries_file.rows[i].CountryName, resp.args[1])
    /\ resp.result = Ret(None)

\* a name two rows carry was looked up, and the first of them came back
C13_FirstOfTwo ==
    /\ resp.route = "get_country_by_name"
    /\ Cardinality(Matches(countries_file.rows, "CountryName", resp.args[1])) > 1
    /\ ~ Raised(resp.result)
    /\ resp.result.val.gdp_billion_usd = countries_file.rows[1].GDP_BillionUSD

\* every attribute of the entity is the corresponding column of the row
BuiltFrom(kind, entity, row) ==
    CASE kind = "country" ->
            /\ entity.country_id = row.CountryID
            /\ entity.country_name = row.CountryName
            /\ entity.gdp_billion_usd = row.GDP_BillionUSD
            /\ entity.mining_revenue_billion_usd = row.MiningRevenue_BillionUSD
            /\ entity.key_projects = row.KeyProjects
            /\ DOMAIN entity = {"country_id", "country_name", "gdp_billion_usd",
                                "mining_revenue_billion_usd", "key_projects"}
      [] kind = "mineral" ->
            /\ entity.mineral_id = row.MineralID
            /\ entity.mineral_name = row.MineralName
            /\ entity.description = row.Description
            /\ entity.market_price_usd_per_tonne = row.MarketPriceUSD_per_tonne
            /\ DOMAIN entity = {"mineral_id", "mineral_name", "description",
                                "market_price_usd_per_tonne"}
      [] kind = "stat" ->
            /\ entity.stat_id = row.StatID
            /\ entity.year = row.Year
            /\ entity.country_id = row.CountryID
            /\ entity.mineral_id = row.MineralID
            /\ entity.production_tonnes = row.Production_tonnes
            /\ entity.export_value_billion_usd = row.ExportValue_BillionUSD
            /\ DOMAIN entity = {"stat_id", "year", "country_id", "mineral_id",
                                "production_tonnes", "export_value_billion_usd"}
      [] kind = "site" ->
            /\ entity.site_id = row.SiteID
            /\ entity.site_name = row.SiteName
            /\ entity.country_id = row.CountryID
            /\ entity.mineral_id = row.MineralID
            /\ entity.latitude = row.Latitude
            /\ entity.longitude = row.Longitude
            /\ entity.production_tonnes = row.Production_tonnes
            /\ DOMAIN entity = {"site_id", "site_name", "country_id", "mineral_id",
                                "latitude", "longitude", "production_tonnes"}

EntityGetAllOps ==
    {"get_all_countries", "get_all_minerals", "get_all_production_stats",
     "get_all_sites"}

\* C14: get_all_countries, get_all_minerals, get_all_sites and
\* get_all_production_stats each return exactly one entity per row of the
\* source table, in source order, every attribute equal to the corresponding
\* column of its row.
C14_OnePerRowInOrder ==
    resp.route \in EntityGetAllOps =>
       /\ ~ Raised(resp.result)
       /\ Len(resp.result.val) = Len(FileRead(resp.route).rows)
       /\ \A i \in 1..Len(resp.result.val) :
             BuiltFrom(KindOf(resp.route), resp.result.val[i],
                       FileRead(resp.route).rows[i])

\* a table of two different rows or more was listed
C14_Witness ==
    /\ resp.route = "get_all_sites"
    /\ ~ Raised(resp.result)
    /\ Len(resp.result.val) > 1
    /\ resp.result.val[1].country_id # resp.result.val[2].country_id

(***************************************************************************)
(* controllers/visualization_controller.py: the pie chart of a mineral's   *)
(* production by country.  A dict is the sequence of its <<key, value>>    *)
(* pairs in insertion order.                                               *)
(***************************************************************************)
dict_has(d, key) == \E i \in 1..Len(d) : d[i][1] = key

\* d[key] = value
dict_set(d, key, value) ==
    IF dict_has(d, key)
    THEN [i \in 1..Len(d) |-> IF d[i][1] = key THEN <<key, value>> ELSE d[i]]
    ELSE Append(d, <<key, value>>)

dict_get(d, key) == d[CHOOSE i \in 1..Len(d) : d[i][1] = key][2]

\* the assignment in place of the +=
add_production_overwriting(d, stat) ==
    dict_set(d, stat.country_id, stat.production_tonnes)

\* if country_id not in country_production: country_production[country_id] = 0
\* country_production[country_id] += stat.get_production()
add_production(d, stat) ==
    LET started == IF dict_has(d, stat.country_id) THEN d
                   ELSE dict_set(d, stat.country_id, 0)
    IN  dict_set(started, stat.country_id,
                 dict_get(started, stat.country_id) + stat.production_tonnes)

RECURSIVE country_production_from(_, _)
country_production_from(stats, d) ==
    IF stats = <<>> THEN d
    ELSE country_production_from(Tail(stats), add_production(d, Head(stats)))

\* country_production = {}; for stat in stats: ...
country_production(stats) == country_production_from(stats, <<>>)

\* for country_id, production in country_production.items():
\*     country = get_country_by_id(country_id)
pie_lookups(d) == [i \in 1..Len(d) |-> get_country_by_id(d[i][1])]

\* the second loop of the chart, list by list:
\*     if country: countries.append(country.get_name())
RECURSIVE pie_countries(_)
pie_countries(d) ==
    IF d = <<>> THEN <<>>
    ELSE LET country == get_country_by_id(Head(d)[1])
         IN  (IF country.val # None THEN <<country.val.country_name>> ELSE <<>>)
             \o pie_countries(Tail(d))

\* productions.append(production) outside the if
pie_productions_unconditional(d) == [i \in 1..Len(d) |-> d[i][2]]

\*     if country: productions.append(production)
RECURSIVE pie_productions(_)
pie_productions(d) ==
    IF d = <<>> THEN <<>>
    ELSE LET country == get_country_by_id(Head(d)[1])
         IN  (IF country.val # None THEN <<Head(d)[2]>> ELSE <<>>)
             \o pie_productions(Tail(d))

\* the chart is its labels and values; the dictionary the first loop built
\* is kept with it
create_production_by_country_pie_chart(mineral_id) ==
    LET stats == get_production_by_mineral(mineral_id)
    IN  IF Raised(stats) THEN stats
        ELSE LET d == country_production(stats.val)
                 bad == first_raised(pie_lookups(d))
             IN  IF Raised(bad) THEN bad
                 ELSE Ret([country_production |-> d,
                           countries |-> pie_countries(d),
                           productions |-> pie_productions(d)])

(***************************************************************************)
(* The pie chart over any small ProductionStats table of two minerals.     *)
(***************************************************************************)
MaxStats == 3

PieMinerals == {1, 2}

Productions == {30, 50, 100}

PieStatTables ==
    SeqsUpTo([CountryID : 1..MaxId, MineralID : PieMinerals,
              Production_tonnes : Productions], MaxStats)

PieStatRows(t) ==
    [i \in 1..Len(t) |->
       [StatID |-> i, Year |-> 2020 + i, CountryID |-> t[i].CountryID,
        MineralID |-> t[i].MineralID,
        Production_tonnes |-> t[i].Production_tonnes,
        ExportValue_BillionUSD |-> i]]

PieStatFiles ==
    {MissingFile} \cup {Csv(StatCols, PieStatRows(t)) : t \in PieStatTables}

InitPie ==
    /\ users_file = SampleUsers
    /\ roles_file = SampleRoles
    /\ countries_file = SampleCountries
    /\ minerals_file = SampleMinerals
    /\ production_stats_file \in PieStatFiles
    /\ sites_file = SampleSites
    /\ users_backup_file = MissingFile
    /\ hasher = NotRunning
    /\ session = EmptySession
    /\ resp = NoCall

call_create_production_by_country_pie_chart(mineral_id) ==
    call("create_production_by_country_pie_chart", <<mineral_id>>,
         create_production_by_country_pie_chart(mineral_id))

NextPie ==
    \E mineral_id \in PieMinerals :
       call_create_production_by_country_pie_chart(mineral_id)

SpecPie == InitPie /\ [][NextPie]_vars

\* the rows of the mineral, in source order
RowsOfMineral(mineral_id) ==
    SelectSeq(production_stats_file.rows, LAMBDA r : r.MineralID = mineral_id)

RECURSIVE TotalOf(_, _)
\* the production of country c summed over the rows
TotalOf(rows, c) ==
    IF rows = <<>> THEN 0
    ELSE (IF Head(rows).CountryID = c THEN Head(rows).Production_tonnes ELSE 0)
         + TotalOf(Tail(rows), c)

\* the position at which country c is first seen in the rows
FirstSeen(rows, c) ==
    CHOOSE i \in 1..Len(rows) :
       /\ rows[i].CountryID = c
       /\ \A j \in 1..(i - 1) : rows[j].CountryID # c

\* d has one group per country of the rows, holding the sum of the
\* country's production, the groups in first-seen order
IsAggregation(d, rows) ==
    /\ {d[k][1] : k \in 1..Len(d)} = {rows[i].CountryID : i \in 1..Len(rows)}
    /\ \A k \in 1..Len(d) : d[k][2] = TotalOf(rows, d[k][1])
    /\ \A k \in 1..Len(d), l \in 1..Len(d) :
          k < l => FirstSeen(rows, d[k][1]) < FirstSeen(rows, d[l][1])

PieBuilt == resp.route = "create_production_by_country_pie_chart" /\ ~ Raised(resp.result)

\* C15: the by-country aggregation for a mineral groups that mineral's rows
\* by country id, sums production_tonnes per group, and lists the groups in
\* the order in which each country id is first seen, not sorted by sum; rows
\* [(1,100),(2,50),(1,30)] give {1:130, 2:50} in order [1,2].
C15_Aggregation ==
    PieBuilt =>
       /\ IsAggregation(resp.result.val.country_production,
                        RowsOfMineral(resp.args[1]))
       /\ [i \in 1..Len(RowsOfMineral(resp.args[1])) |->
              <<RowsOfMineral(resp.args[1])[i].CountryID,
                RowsOfMineral(resp.args[1])[i].Production_tonnes>>]
             = << <<1, 100>>, <<2, 50>>, <<1, 30>> >>
          => resp.result.val.country_production = << <<1, 130>>, <<2, 50>> >>

\* the documented rows were aggregated
C15_Witness ==
    /\ PieBuilt
    /\ Len(RowsOfMineral(resp.args[1])) = 3
    /\ resp.result.val.country_production = << <<1, 130>>, <<2, 50>> >>

\* the group first seen has the smaller sum and still comes first
C15_NotSortedBySum ==
    /\ PieBuilt
    /\ Len(resp.result.val.country_production) = 2
    /\ resp.result.val.country_production[1][2] < resp.result.val.country_production[2][2]

\* the price computed without the guard
get_average_price_per_tonne_unguarded(stat) ==
    truediv(stat.export_value_billion_usd * 1000000000, stat.production_tonnes)

\* models/production_stats.py
get_average_price_per_tonne(stat) ==
    IF stat.production_tonnes > 0
    THEN truediv(stat.export_value_billion_usd * 1000000000, stat.production_tonnes)
    ELSE Ret(Zero)

stat_to_dict(stat) ==
    LET price == get_average_price_per_tonne(stat)
    IN  IF Raised(price) THEN price
        ELSE Ret([country_id |-> stat.country_id, mineral_id |-> stat.mineral_id,
                  stat_id |-> stat.stat_id, year |-> stat.year,
                  production_tonnes |-> stat.production_tonnes,
                  export_value_billion_usd |-> stat.export_value_billion_usd,
                  avg_price_per_tonne |-> price.val])

(***************************************************************************)
(* The derived values of a Country and of a ProductionStats, over small    *)
(* amounts of either sign and the documented ones.                         *)
(***************************************************************************)
MaxAmount == 4

\* GDP and mining revenue, in billion USD
Amounts == (-1..MaxAmount) \cup {25, 100}

\* production, in tonnes
Tonnages == (-1..MaxAmount) \cup {1000000}

\* export value, in billion USD
ExportValues == -1..2

CountryWith(gdp, revenue) ==
    [country_id |-> 1, country_name |-> "South Africa", gdp_billion_usd |-> gdp,
     mining_revenue_billion_usd |-> revenue, key_projects |-> "Bushveld"]

StatWith(export, production) ==
    [country_id |-> 1, mineral_id |-> 1, stat_id |-> 1, year |-> 2023,
     production_tonnes |-> production, export_value_billion_usd |-> export]

InitDerived ==
    /\ users_file = SampleUsers
    /\ roles_file = SampleRoles
    /\ countries_file = SampleCountries
    /\ minerals_file = SampleMinerals
    /\ production_stats_file = SampleStats
    /\ sites_file = SampleSites
    /\ users_backup_file = MissingFile
    /\ hasher = NotRunning
    /\ session = EmptySession
    /\ resp = NoCall

call_get_mining_contribution_percentage(gdp, revenue) ==
    call("get_mining_contribution_percentage", <<gdp, revenue>>,
         get_mining_contribution_percentage(CountryWith(gdp, revenue)))

call_country_to_dict(gdp, revenue) ==
    call("Country.to_dict", <<gdp, revenue>>,
         country_to_dict(CountryWith(gdp, revenue)))

call_get_average_price_per_tonne(export, production) ==
    call("get_average_price_per_tonne", <<export, production>>,
         get_average_price_per_tonne(StatWith(export, production)))

call_stat_to_dict(export, production) ==
    call("ProductionStats.to_dict", <<export, production>>,
         stat_to_dict(StatWith(export, production)))

NextDerived ==
    \/ \E gdp \in Amounts, revenue \in Amounts :
          \/ call_get_mining_contribution_percentage(gdp, revenue)
          \/ call_country_to_dict(gdp, revenue)
    \/ \E export \in ExportValues, production \in Tonnages :
          \/ call_get_average_price_per_tonne(export, production)
          \/ call_stat_to_dict(export, production)

SpecDerived == InitDerived /\ [][NextDerived]_vars

\* q is the exact quotient n / d, d > 0: n and d are q's numerator and
\* denominator times the same whole number
IsQuotient(q, n, d) ==
    /\ q.den > 0
    /\ d % q.den = 0
    /\ n = q.num * (d \div q.den)

\* q is the whole number n
IsNumber(q, n) == q.num = n * q.den /\ q.den > 0

\* value is revenue / GDP x 100 when GDP > 0 and 0 otherwise
IsContribution(value, gdp, revenue) ==
    /\ gdp > 0 => IsQuotient(value, revenue * 100, gdp)
    /\ gdp <= 0 => IsNumber(value, 0)
    /\ gdp = 100 /\ revenue = 25 => IsNumber(value, 25)

\* C16: get_mining_contribution_percentage returns revenue / GDP x 100 when
\* GDP > 0 and 0 for every GDP <= 0 whatever the revenue, raising no
\* division error; (GDP=100, revenue=25) gives 25; Country.to_dict reports
\* the same value as mining_contribution_pct.
C16_Contribution ==
    /\ resp.route = "get_mining_contribution_percentage" =>
          /\ ~ Raised(resp.result)
          /\ IsContribution(resp.result.val, resp.args[1], resp.args[2])
    /\ resp.route = "Country.to_dict" =>
          /\ ~ Raised(resp.result)
          /\ IsContribution(resp.result.val.mining_contribution_pct,
                            resp.args[1], resp.args[2])

\* the percentage of a country without GDP and with revenue was asked for
C16_Witness ==
    /\ resp.route = "get_mining_contribution_percentage"
    /\ resp.args[1] = 0 /\ resp.args[2] > 0
    /\ resp.result = Ret(Zero)

\* the documented percentage was reported by to_dict
C16_Example ==
    /\ resp.route = "Country.to_dict"
    /\ resp.args = <<100, 25>>
    /\ resp.result.val.mining_contribution_pct = [num |-> 25, den |-> 1]

\* value is export x 1,000,000,000 / production when production > 0 and 0
\* otherwise
IsAveragePrice(value, export, production) ==
    /\ production > 0 => IsQuotient(value, export * 1000000000, production)
    /\ production <= 0 => IsNumber(value, 0)
    /\ export = 2 /\ production = 1000000 => IsNumber(value, 2000)

\* C17: get_average_price_per_tonne returns export_value_billion_usd x
\* 1,000,000,000 / production_tonnes when production_tonnes > 0 and 0 for
\* every production_tonnes <= 0, raising no division error; (2 billion USD,
\* 1,000,000 tonnes) gives 2000; ProductionStats.to_dict reports the same
\* value as avg_price_per_tonne.
C17_AveragePrice ==
    /\ resp.route = "get_average_price_per_tonne" =>
          /\ ~ Raised(resp.result)
          /\ IsAveragePrice(resp.result.val, resp.args[1], resp.args[2])
    /\ resp.route = "ProductionStats.to_dict" =>
          /\ ~ Raised(resp.result)
          /\ IsAveragePrice(resp.result.val.avg_price_per_tonne,
                            resp.args[1], resp.args[2])

\* the price of a statistic without production and with exports was asked for
C17_Witness ==
    /\ resp.route = "get_average_price_per_tonne"
    /\ resp.args[1] > 0 /\ resp.args[2] = 0
    /\ resp.result = Ret(Zero)

\* the documented price was reported by to_dict
C17_Example ==
    /\ resp.route = "ProductionStats.to_dict"
    /\ resp.args = <<2, 1000000>>
    /\ resp.result.val.avg_price_per_tonne = [num |-> 2000, den |-> 1]

(***************************************************************************)
(* validate_session over any session data, whatever the user store holds.  *)
(***************************************************************************)
SessionKeys == {"user_id", "username", "role_id", "role_name", "email"}

\* a value of a user of the store and one of nobody
SessionValues == {"alice", "nobody"}

SessionDatas == UNION {[keys -> SessionValues] : keys \in SUBSET SessionKeys}

InitSession ==
    /\ users_file \in {SampleUsers} \cup BrokenFiles
    /\ roles_file = SampleRoles
    /\ countries_file = SampleCountries
    /\ minerals_file = SampleMinerals
    /\ production_stats_file = SampleStats
    /\ sites_file = SampleSites
    /\ users_backup_file = MissingFile
    /\ hasher = NotRunning
    /\ session = EmptySession
    /\ resp = NoCall

call_validate_session(session_data) ==
    call("validate_session", <<session_data>>, Ret(validate_session(session_data)))

NextSession ==
    \E session_data \in SessionDatas : call_validate_session(session_data)

SpecSession == InitSession /\ [][NextSession]_vars

\* C18: validate_session(session_data) is True if and only if session_data
\* is non-empty and has the three keys 'user_id', 'username' and 'role_id';
\* the user store is not consulted and no password verified, so the result
\* depends on which keys are present only, not on their values.
C18_KeysOnly ==
    resp.route = "validate_session" =>
       /\ resp.result.val \in BOOLEAN
       /\ resp.result.val = TRUE <=>
             /\ resp.args[1] # EmptySession
             /\ {"user_id", "username", "role_id"} \subseteq DOMAIN resp.args[1]
       /\ \A other \in SessionDatas :
             DOMAIN other = DOMAIN resp.args[1] =>
                validate_session(other) = resp.result.val

\* a session naming nobody was found valid while the user store is missing
C18_Witness ==
    /\ resp.route = "validate_session"
    /\ users_file = MissingFile
    /\ DOMAIN resp.args[1] = {"user_id", "username", "role_id"}
    /\ \A key \in DOMAIN resp.args[1] : resp.args[1][key] = "nobody"
    /\ resp.result = Ret(TRUE)

(***************************************************************************)
(* What leaves the authentication code: the session a login writes and the *)
(* dictionary of an authenticated user.                                    *)
(***************************************************************************)
InitSecrets ==
    /\ users_file \in UserFiles
    /\ roles_file \in RoleFiles
    /\ countries_file = SampleCountries
    /\ minerals_file = SampleMinerals
    /\ production_stats_file = SampleStats
    /\ sites_file = SampleSites
    /\ users_backup_file = MissingFile
    /\ hasher = NotRunning
    /\ session = EmptySession
    /\ resp = NoResponse

\* user = authenticate_user(username, password); user.to_dict()
call_user_to_dict(username, password) ==
    LET user == authenticate_user(username, password)
    IN  call("User.to_dict", <<username, password>>,
             IF Raised(user) \/ user.val = None THEN user
             ELSE Ret(user_to_dict(user.val)))

NextSecrets ==
    \/ \E username \in LoginNames, password \in Passwords :
          \/ \E propagate_exceptions \in BOOLEAN :
                login_post(username, password, propagate_exceptions)
          \/ call_user_to_dict(username, password)
    \/ logout

SpecSecrets == InitSecrets /\ [][NextSecrets]_vars

SecretKeys == {"password", "password_hash", "PasswordHash"}

\* the dictionary holds, under the given keys, fields of the row other than
\* its password hash, and nothing else
OnlyPublicFields(d, row, keys) ==
    /\ DOMAIN d = keys
    /\ DOMAIN d \cap SecretKeys = {}
    /\ "user_id" \in keys => d.user_id = row.UserID
    /\ "username" \in keys => d.username = row.Username
    /\ "role_id" \in keys => d.role_id = row.RoleID
    /\ "email" \in keys => d.email = row.Email

RoleNames == {RoleNameOf(i) : i \in 1..(MaxRoles + 1)} \cup {"Unknown"}

MaxRuns == 2

(***************************************************************************)
(* hash_passwords.py: the utility, meant to be run once on a users.csv of   *)
(* plain text passwords, and run here up to MaxRuns times.  Each statement *)
(* that reads or writes a file is a step; a run can be killed between any  *)
(* two steps.                                                              *)
(***************************************************************************)
Running == hasher.pc \notin {"idle", "cancelled", "done"} /\ hasher.halted = "no"

at(pc) == hasher.pc = pc /\ hasher.halted = "no"

goto(pc) == [hasher EXCEPT !.pc = pc]

halt(why) == [hasher EXCEPT !.halted = why]

\* the answer compared as it was typed
answer_as_typed(response) == response

\* input(...).lower(), on the answers of the model
answer_lower(response) ==
    CASE response \in {"YES", "Yes"} -> "yes"
      [] response = "Y" -> "y"
      [] response = "NO" -> "no"
      [] OTHER -> response

\* if response in ['yes', 'y']: hash_user_passwords()  else: cancelled
hash_main(response) ==
    /\ at("idle")
    /\ hasher' = IF answer_lower(response) \in {"yes", "y"}
                 THEN [hasher EXCEPT !.pc = "exists", !.answer = response,
                                     !.began_with = users_file]
                 ELSE [hasher EXCEPT !.pc = "cancelled", !.answer = response]
    /\ UNCHANGED <<store, session, resp>>

\* if not os.path.exists(users_file): return
hash_exists ==
    /\ at("exists")
    /\ hasher' = IF users_file.kind = "missing" THEN goto("done") ELSE goto("read")
    /\ UNCHANGED <<store, session, resp>>

\* users_df = pd.read_csv(users_file)
hash_read ==
    /\ at("read")
    /\ hasher' = IF Raised(read_csv(users_file))
                 THEN halt(read_csv(users_file).exc)
                 ELSE [hasher EXCEPT !.pc = "backup",
                                     !.users_df = read_csv(users_file).val]
    /\ UNCHANGED <<store, session, resp>>

\* users_df.to_csv(backup_file, index=False)
hash_backup ==
    /\ at("backup")
    /\ users_backup_file' = to_csv(hasher.users_df)
    /\ hasher' = [hasher EXCEPT !.pc = "hash",
                                !.first_backup =
                                    IF @.kind = "missing"
                                    THEN to_csv(hasher.users_df) ELSE @]
    /\ UNCHANGED <<users_file, roles_file, countries_file, minerals_file,
                   production_stats_file, sites_file, session, resp>>

\* hashed_passwords = [generate_password_hash(str(row['PasswordHash'])) ...]
\* users_df['PasswordHash'] = hashed_passwords
hashed(df) ==
    [columns |-> df.columns \cup {"PasswordHash"},
     rows |-> [i \in 1..Len(df.rows) |->
                 [df.rows[i] EXCEPT !.PasswordHash =
                     generate_password_hash(Salt, str(@))]]]

hash_hash ==
    /\ at("hash")
    /\ hasher' = IF /\ hasher.users_df.rows # <<>>
                    /\ ~ ({"PasswordHash", "Username"} \subseteq hasher.users_df.columns)
                 THEN halt("KeyError")
                 ELSE [hasher EXCEPT !.pc = "save",
                                     !.users_df = hashed(hasher.users_df)]
    /\ UNCHANGED <<store, session, resp>>

\* users_df.to_csv(users_file, index=False)
hash_save ==
    /\ at("save")
    /\ users_file' = to_csv(hasher.users_df)
    /\ hasher' = goto("report")
    /\ UNCHANGED <<roles_file, countries_file, minerals_file,
                   production_stats_file, sites_file, users_backup_file,
                   session, resp>>

\* backup_df = pd.read_csv(backup_file); the credentials are printed
hash_report ==
    /\ at("report")
    /\ hasher' = IF Raised(read_csv(users_backup_file))
                 THEN halt(read_csv(users_backup_file).exc)
                 ELSE goto("done")
    /\ UNCHANGED <<store, session, resp>>

\* the process is killed
hash_killed ==
    /\ Running
    /\ hasher' = halt("killed")
    /\ UNCHANGED <<store, session, resp>>

\* the utility is started again after a run of it has ended
hash_again ==
    /\ ~ Running
    /\ hasher.pc # "idle"
    /\ hasher.run < MaxRuns
    /\ hasher' = [NotRunning EXCEPT !.run = hasher.run + 1,
                                    !.first_backup = hasher.first_backup]
    /\ UNCHANGED <<store, session, resp>>

\* 'pw', '07' and 'NA'
PlainTexts == {<<"p", "w">>, <<"0", "7">>, <<"N", "A">>}

PlainUserTables ==
    SeqsUpTo([Username : Usernames, Password : PlainTexts], MaxUsers)

\* users.csv before the utility has run: the PasswordHash column holds the
\* passwords
PlainUserRows(t) ==
    [i \in 1..Len(t) |->
       [UserID |-> i, Username |-> t[i].Username, PasswordHash |-> t[i].Password,
        RoleID |-> RoleOf(t[i].Username), Email |-> EmailOf(i)]]

PlainUserFiles ==
    {MissingFile, EmptyFile, WrongColumnsFile} \cup
    {Csv(UserCols, PlainUserRows(t)) : t \in PlainUserTables}

\* a backup an earlier run left
StaleBackup ==
    Csv(UserCols, PlainUserRows(<<[Username |-> "alice", Password |-> <<"o", "l", "d">>]>>))

Answers == {"yes", "y", "YES", "Yes", "Y", "no", "NO", "n", "", " yes", "yes please"}

InitHasher ==
    /\ users_file \in PlainUserFiles
    /\ roles_file = SampleRoles
    /\ countries_file = SampleCountries
    /\ minerals_file = SampleMinerals
    /\ production_stats_file = SampleStats
    /\ sites_file = SampleSites
    /\ users_backup_file \in {MissingFile, StaleBackup}
    /\ hasher = NotRunning
    /\ session = EmptySession
    /\ resp = NoCall

NextHasher ==
    \/ \E response \in Answers : hash_main(response)
    \/ hash_exists
    \/ hash_read
    \/ hash_backup
    \/ hash_hash
    \/ hash_save
    \/ hash_report
    \/ hash_killed
    \/ hash_again

SpecHasher == InitHasher /\ [][NextHasher]_vars

\* the run has passed the statement that writes the backup
BackupWritten(h) == h.pc \in {"hash", "save", "report", "done"} /\ h.began_with # MissingFile

Started(h) == h.pc \notin {"idle", "cancelled"}

\* C20: in every run of the utility the backup is written before users.csv
\* is overwritten, and at the moment users.csv is overwritten the backup
\* holds exactly the content users.csv had when the run began; a run that
\* stops before the backup is written leaves users.csv unchanged.
C20_BackupThenOverwrite ==
    [][/\ (hasher.pc = "save" /\ hasher'.pc = "report") =>
             /\ BackupWritten(hasher)
             /\ users_backup_file = hasher.began_with
       /\ (Started(hasher') /\ ~ BackupWritten(hasher')) =>
             users_file' = hasher'.began_with]_vars

\* C20 up to what pandas reads: the backup is written first and holds what
\* read_csv made of the content users.csv had; a run that stops earlier
\* leaves users.csv unchanged.
C20_ParsedBackupThenOverwrite ==
    [][/\ (hasher.pc = "save" /\ hasher'.pc = "report") =>
             /\ BackupWritten(hasher)
             /\ users_backup_file = to_csv(read_csv(hasher.began_with).val)
       /\ (Started(hasher') /\ ~ BackupWritten(hasher')) =>
             users_file' = hasher'.began_with]_vars

\* users.csv has been overwritten with hashes and the backup holds the
\* passwords it had
C20_Overwritten ==
    /\ hasher.pc = "done"
    /\ hasher.began_with.kind = "csv"
    /\ users_file # hasher.began_with
    /\ users_backup_file = hasher.began_with

\* a run of the utility has written a backup
SomeBackupWritten == hasher.first_backup.kind # "missing"

\* C21: after any number of runs of the utility, the backup the first run
\* wrote still exists, with the content that run gave it: no later run
\* overwrites it.
C21_FirstBackupKept ==
    SomeBackupWritten => users_backup_file = hasher.first_backup

\* the second run has written its backup over the one the first run wrote,
\* and what is left holds hashes, not the passwords
C21_SecondRunOverwrote ==
    /\ hasher.run = 2
    /\ hasher.pc = "hash"
    /\ SomeBackupWritten
    /\ hasher.first_backup.rows # <<>>
    /\ users_backup_file # hasher.first_backup
    /\ \A i \in 1..Len(users_backup_file.rows) :
          users_backup_file.rows[i].PasswordHash =
              generate_password_hash(Salt, str(read_csv(hasher.first_backup).val.rows[i].PasswordHash))

\* the answers that confirm: 'yes' or 'y' in any case
IsYes(answer) == answer \in {"yes", "y", "YES", "Yes", "Y"}

\* C22: users.csv and the backup change only in a run whose operator
\* answered 'yes' or 'y' (in any case) and that found users.csv; a run
\* goes on past the question exactly when the answer is one of these, and
\* a cancelled run does nothing more.
C22_OnlyAfterConfirm ==
    [][/\ (users_file' # users_file \/ users_backup_file' # users_backup_file) =>
             /\ IsYes(hasher.answer)
             /\ hasher.began_with.kind # "missing"
             /\ Started(hasher)
       /\ (hasher.pc = "idle" /\ hasher'.pc # "idle") =>
             (hasher'.pc = "cancelled" <=> ~ IsYes(hasher'.answer))
       /\ (hasher.pc = "cancelled" /\ hasher'.run = hasher.run) =>
             hasher' = hasher
       /\ (Started(hasher) /\ hasher.began_with.kind = "missing"
             /\ hasher'.run = hasher.run) =>
             hasher'.pc \in {"exists", "done"}]_vars

\* a run answered YES has written the backup and overwritten users.csv
C22_Witness ==
    /\ hasher.answer = "YES"
    /\ hasher.pc = "done"
    /\ users_backup_file = hasher.first_backup
    /\ users_backup_file.kind = "csv"
    /\ users_file # hasher.began_with

\* a run answered ' yes' was cancelled, and one that found no users.csv
\* ended, with no backup made
C22_NoBackupMade ==
    /\ users_backup_file.kind = "missing"
    /\ \/ hasher.pc = "cancelled" /\ hasher.answer = " yes" /\ users_file.kind = "csv"
       \/ hasher.pc = "done" /\ users_file.kind = "missing"

(***************************************************************************)
(* Every operation of AuthController, DataController and DatabaseManager   *)
(* and the aggregation of the pie chart, called in any order over data     *)
(* folders whose files are the documented ones or broken.                  *)
(***************************************************************************)
NextReadOnly ==
    \/ NextHealth
    \/ NextPie
    \/ \E keys \in SUBSET RequiredKeys :
          call_validate_session([key \in keys |-> "alice"])

SpecReadOnly == InitHealth /\ [][NextReadOnly]_vars

\* C23: no call of the Query service, the Auth service or the aggregation
\* of the pie chart, successful or failed, changes the content of a file
\* of the data folder.
C23_StoreUnchanged == [][store' = store]_vars

\* the aggregation has failed on a broken production_stats.csv, and a
\* login has succeeded before or after
C23_Witness ==
    /\ resp.route = "create_production_by_country_pie_chart"
    /\ Raised(resp.result)
    /\ production_stats_file \in BrokenFiles
    /\ users_file = SampleUsers

(***************************************************************************)
(* Calls of the Auth and Query services between which users.csv and        *)
(* production_stats.csv are edited from outside: the data folder starts    *)
(* with the documented files, and an edit replaces a file by any           *)
(* well-formed table.  The response of the earlier call has been produced  *)
(* and discarded by the time the file is edited.                           *)
(***************************************************************************)
\* production_stats.csv with up to two rows of mineral 1
EditedStatFiles ==
    {Csv(StatCols, StatRows(t)) :
        t \in SeqsUpTo([CountryID : 1..2, MineralID : {1}], 2)}

InitFresh ==
    /\ users_file = SampleUsers
    /\ roles_file = SampleRoles
    /\ countries_file = SampleCountries
    /\ minerals_file = SampleMinerals
    /\ production_stats_file = SampleStats
    /\ sites_file = SampleSites
    /\ users_backup_file = MissingFile
    /\ hasher = NotRunning
    /\ session = EmptySession
    /\ resp = NoCall

users_edited(file) ==
    /\ file # users_file
    /\ users_file' = file
    /\ resp' = NoCall
    /\ UNCHANGED <<roles_file, countries_file, minerals_file,
                   production_stats_file, sites_file, users_backup_file,
                   session, hasher>>

production_stats_edited(file) ==
    /\ file # production_stats_file
    /\ production_stats_file' = file
    /\ resp' = NoCall
    /\ UNCHANGED <<users_file, roles_file, countries_file, minerals_file,
                   sites_file, users_backup_file, session, hasher>>

NextFresh ==
    \/ \E file \in UserFiles \ {MissingFile} : users_edited(file)
    \/ \E file \in EditedStatFiles : production_stats_edited(file)
    \/ \E username \in LoginNames : call_get_user_by_username(username)
    \/ \E username \in LoginNames, password \in Passwords :
          call_authenticate_user(username, password)
    \/ \E id \in 1..2 : call_get_production_by_country(id)

SpecFresh == InitFresh /\ [][NextFresh]_vars

\* C24: the result of a call of get_user_by_username, authenticate_user or
\* get_production_by_country is the one the content the store has at the
\* time of the call gives, whatever the store held at earlier calls: the
\* first row of users.csv with the user name (None if there is none), the
\* user of that row if the password verifies against its stored hash (None
\* otherwise), the rows of production_stats.csv with the country id.
C24_FreshResult ==
    /\ resp.route = "get_user_by_username" =>
          IF RowsNamed(resp.args[1]) = {}
          THEN resp.result = Ret(None)
          ELSE /\ ~ Raised(resp.result)
               /\ resp.result.val # None
               /\ resp.result.val.row = users_file.rows[FirstRowNamed(resp.args[1])]
    /\ resp.route = "authenticate_user" =>
          IF /\ RowsNamed(resp.args[1]) # {}
             /\ IsHashOf(users_file.rows[FirstRowNamed(resp.args[1])].PasswordHash,
                         resp.args[2])
          THEN /\ ~ Raised(resp.result)
               /\ resp.result.val # None
               /\ LET row == users_file.rows[FirstRowNamed(resp.args[1])]
                  IN  /\ resp.result.val.user_id = row.UserID
                      /\ resp.result.val.username = row.Username
                      /\ resp.result.val.password_hash = row.PasswordHash
                      /\ resp.result.val.role_id = row.RoleID
          ELSE resp.result = Ret(None)
    /\ resp.route = "get_production_by_country" =>
          /\ ~ Raised(resp.result)
          /\ IsSelection(resp.result.val, production_stats_file.rows,
                         "CountryID", resp.args[1], KindOf(resp.route))

\* users.csv was edited after start-up, and a password that the documented
\* file did not accept authenticates
C24_Witness ==
    /\ users_file # SampleUsers
    /\ resp.route = "authenticate_user"
    /\ resp.result # Ret(None)
    /\ ~ Raised(resp.result)
    /\ resp.result.val # None
    /\ resp.args # <<"alice", <<"pw1">>>>

\* production_stats.csv was edited after start-up, and the rows returned
\* for a country are those of the edited file
C24_EditedStatsReturned ==
    /\ production_stats_file # SampleStats
    /\ resp.route = "get_production_by_country"
    /\ resp.result # Ret(<<>>)
    /\ Len(resp.result.val) = 2

\* C25: for a logged-in session mineral_detail answers every mineral id
\* either with the detail page of the mineral get_mineral_by_id found or,
\* when it returned None, with 'Mineral not found.' and the redirect to the
\* minerals list; it never ends in a NameError.
C25_MineralDetailAnswers ==
    resp.route = "mineral_detail" /\ resp.body =>
       /\ resp.target # "NameError"
       /\ LET mineral == get_mineral_by_id(resp.args[1])
          IN  ~ Raised(mineral) =>
                 IF mineral.val = None
                 THEN /\ resp.status = "redirect"
                      /\ resp.target = "minerals"
                      /\ resp.flash = <<"Mineral not found.">>
                 ELSE /\ resp.status = "render"
                      /\ resp.target = "mineral_detail.html"
                      /\ resp.data.mineral = mineral.val

\* a logged-in request for a mineral of the store ended in the NameError
C25_NameErrorOnFound ==
    /\ resp.route = "mineral_detail"
    /\ resp.body
    /\ resp.status = "error500"
    /\ resp.target = "NameError"
    /\ ~ Raised(get_mineral_by_id(resp.args[1]))
    /\ get_mineral_by_id(resp.args[1]).val # None

\* a logged-in request for a mineral the store lacks ended in the NameError
C25_NameErrorOnAbsent ==
    /\ resp.route = "mineral_detail"
    /\ resp.body
    /\ resp.target = "NameError"
    /\ get_mineral_by_id(resp.args[1]) = Ret(None)

(***************************************************************************)
(* The web application over users.csv files in which the RoleID cell of    *)
(* any row may be empty.                                                   *)
(***************************************************************************)
LooseUserFiles ==
    {Csv(UserCols,
         [i \in 1..Len(t) |->
            IF i \in unset THEN [UserRows(t)[i] EXCEPT !.RoleID = NaNId]
            ELSE UserRows(t)[i]]) :
       t \in UserTables, unset \in SUBSET (1..MaxUsers)}

InitLogin ==
    /\ users_file \in LooseUserFiles
    /\ roles_file = SampleRoles
    /\ countries_file = SampleCountries
    /\ minerals_file = SampleMinerals
    /\ production_stats_file = SampleStats
    /\ sites_file = SampleSites
    /\ users_backup_file = MissingFile
    /\ hasher = NotRunning
    /\ session = EmptySession
    /\ resp = NoResponse

SpecLogin == InitLogin /\ [][Next]_vars

\* the session holds all five keys of a login or none of them
AllOrNone(d) ==
    \/ DOMAIN d \cap SessionKeys = {}
    \/ SessionKeys \subseteq DOMAIN d

\* C26: in every session state that login, logout and page requests reach,
\* user_id, username, role_id, role_name and email are all present or all
\* absent, so that the test of login_required ('user_id' in session) and
\* validate_session(session) agree.
C26_AllOrNone ==
    /\ AllOrNone(session)
    /\ ("user_id" \in DOMAIN session) <=> validate_session(session)

\* C26 over stores whose RoleID cells all hold an id
C26_AllOrNoneOfIds ==
    (\A i \in 1..Len(users_file.rows) : users_file.rows[i].RoleID # NaNId) =>
       /\ AllOrNone(session)
       /\ ("user_id" \in DOMAIN session) <=> validate_session(session)

\* a login stopped at session['role_id'] = int(NaN): the session holds
\* user_id and username only, and the dashboard has been served to it
C26_PartialSession ==
    /\ DOMAIN session = {"user_id", "username"}
    /\ ~ validate_session(session)
    /\ resp.route = "dashboard"
    /\ resp.status = "render"

(***************************************************************************)
(* The web application while users.csv is edited from outside: a row is    *)
(* removed, or its password or its role is changed.                        *)
(***************************************************************************)
TwoUsers ==
    Csv(UserCols, UserRows(<< [Username |-> "alice", Password |-> <<"pw1">>],
                              [Username |-> "bob", Password |-> <<"pw2">>] >>))

InitStale ==
    /\ users_file = TwoUsers
    /\ roles_file = SampleRoles
    /\ countries_file = SampleCountries
    /\ minerals_file = SampleMinerals
    /\ production_stats_file = SampleStats
    /\ sites_file = SampleSites
    /\ users_backup_file = MissingFile
    /\ hasher = NotRunning
    /\ session = EmptySession
    /\ resp = NoResponse

\* users.csv is replaced by rws; nothing of the application runs
users_rows_set(rws) ==
    /\ users_file' = Csv(users_file.columns, rws)
    /\ UNCHANGED <<roles_file, countries_file, minerals_file,
                   production_stats_file, sites_file, users_backup_file,
                   session, resp, hasher>>

user_row_removed(i) ==
    /\ i \in 1..Len(users_file.rows)
    /\ users_rows_set(SubSeq(users_file.rows, 1, i - 1)
                      \o SubSeq(users_file.rows, i + 1, Len(users_file.rows)))

user_password_changed(i, password) ==
    /\ i \in 1..Len(users_file.rows)
    /\ users_file.rows[i].PasswordHash # generate_password_hash(Salt, password)
    /\ users_rows_set([users_file.rows EXCEPT
                          ![i].PasswordHash = generate_password_hash(Salt, password)])

user_role_changed(i, role_id) ==
    /\ i \in 1..Len(users_file.rows)
    /\ users_file.rows[i].RoleID # role_id
    /\ users_rows_set([users_file.rows EXCEPT ![i].RoleID = role_id])

NextStale ==
    \/ Next
    \/ \E i \in 1..2 :
          \/ user_row_removed(i)
          \/ \E password \in Passwords : user_password_changed(i, password)
          \/ \E role_id \in 1..MaxId : user_role_changed(i, role_id)

SpecStale == InitStale /\ [][NextStale]_vars

\* the name of the first role of roles.csv with the id, 'Unknown' if none
RoleNameIn(role_id) ==
    IF \E i \in 1..Len(roles_file.rows) : roles_file.rows[i].RoleID = role_id
    THEN roles_file.rows[CHOOSE i \in 1..Len(roles_file.rows) :
            /\ roles_file.rows[i].RoleID = role_id
            /\ \A j \in 1..(i - 1) : roles_file.rows[j].RoleID # role_id].RoleName
    ELSE "Unknown"

\* C27: a login captures the user name, role id and role name the store
\* holds at that moment; from then on, whatever is done to users.csv, the
\* session keeps them until a logout or another login, and the dashboard
\* is served to it with the captured user name and role name.
C27_StaysAuthenticated ==
    [][/\ (~ LoggedIn /\ LoggedIn') =>
             /\ IsLoginPost(resp')
             /\ LET row == users_file.rows[FirstRowNamed(resp'.args[2])]
                IN  /\ session'.user_id = row.UserID
                    /\ session'.username = row.Username
                    /\ session'.role_id = row.RoleID
                    /\ session'.role_name = RoleNameIn(row.RoleID)
       /\ (LoggedIn /\ users_file' # users_file) => session' = session
       /\ (LoggedIn /\ resp'.route \notin {"login", "logout"}) => session' = session
       /\ (LoggedIn' /\ resp'.route = "dashboard") =>
             /\ resp'.status = "render"
             /\ resp'.target = "dashboard.html"
             /\ resp'.data.who = [username |-> session'.username,
                                  role_name |-> session'.role_name]]_vars

\* the dashboard has been served to a session whose user has no row left
C27_Witness ==
    /\ LoggedIn
    /\ resp.route = "dashboard"
    /\ resp.status = "render"
    /\ RowsNamed(session.username) = {}
    /\ resp.data.who.username = session.username

\* the dashboard has been served to a session whose row now carries another
\* role and another password than at login
C27_RoleAndPasswordChanged ==
    /\ LoggedIn
    /\ resp.route = "dashboard"
    /\ resp.status = "render"
    /\ session.username = "alice"
    /\ RowsNamed("alice") # {}
    /\ users_file.rows[FirstRowNamed("alice")].RoleID # session.role_id
    /\ users_file.rows[FirstRowNamed("alice")].PasswordHash #
          generate_password_hash(Salt, <<"pw1">>)
    /\ resp.data.who.role_name = "Administrator"

(***************************************************************************)
(* authenticate_user over users tables in which rows may share a user      *)
(* name.                                                                   *)
(***************************************************************************)
InitAuth ==
    /\ users_file \in UserFiles \ {MissingFile}
    /\ roles_file = SampleRoles
    /\ countries_file = SampleCountries
    /\ minerals_file = SampleMinerals
    /\ production_stats_file = SampleStats
    /\ sites_file = SampleSites
    /\ users_backup_file = MissingFile
    /\ hasher = NotRunning
    /\ session = EmptySession
    /\ resp = NoCall

NextAuth ==
    \E username \in LoginNames, password \in Passwords :
       call_authenticate_user(username, password)

SpecAuth == InitAuth /\ [][NextAuth]_vars

\* the rows after the first of the user name whose stored hash is one of
\* the password
LaterRowsAccepting(username, password) ==
    {i \in RowsNamed(username) :
        /\ i # FirstRowNamed(username)
        /\ IsHashOf(users_file.rows[i].PasswordHash, password)}

\* C28: when rows share a user name, authenticate_user tries the password
\* on the first of them only: the result is the user of the first row if
\* the password verifies against that row's hash, and None otherwise, even
\* when the password is the one of a later row with the name.
C28_FirstRowOnly ==
    resp.route = "authenticate_user" /\ RowsNamed(resp.args[1]) # {} =>
       LET first == users_file.rows[FirstRowNamed(resp.args[1])]
       IN  IF IsHashOf(first.PasswordHash, resp.args[2])
           THEN /\ ~ Raised(resp.result)
                /\ resp.result.val # None
                /\ resp.result.val.user_id = first.UserID
                /\ resp.result.val.password_hash = first.PasswordHash
           ELSE resp.result = Ret(None)

\* the password of the second row named alice was refused
C28_Witness ==
    /\ resp.route = "authenticate_user"
    /\ Cardinality(RowsNamed(resp.args[1])) > 1
    /\ LaterRowsAccepting(resp.args[1], resp.args[2]) # {}
    /\ ~ IsHashOf(users_file.rows[FirstRowNamed(resp.args[1])].PasswordHash,
                  resp.args[2])
    /\ resp.result = Ret(None)

\* with two rows of one name and one password, the user returned is the
\* first row's
C28_FirstOfEqualRows ==
    /\ resp.route = "authenticate_user"
    /\ LaterRowsAccepting(resp.args[1], resp.args[2]) # {}
    /\ ~ Raised(resp.result)
    /\ resp.result.val # None
    /\ resp.result.val.user_id = 1

(***************************************************************************)
(* The pie chart of mineral 1 over production rows of countries 1 to 3     *)
(* and Countries tables that hold some of them, each perhaps twice.        *)
(***************************************************************************)
SliceStatTables ==
    SeqsUpTo([CountryID : 1..3, MineralID : {1}, Production_tonnes : {30, 50}], 3)

SliceCountryTables == SeqsUpTo(1..3, 2)

InitSlices ==
    /\ users_file = SampleUsers
    /\ roles_file = SampleRoles
    /\ countries_file \in {Csv(CountryCols, CountryRows(t)) : t \in SliceCountryTables}
    /\ minerals_file = SampleMinerals
    /\ production_stats_file \in
          {Csv(StatCols, PieStatRows(t)) : t \in SliceStatTables}
    /\ sites_file = SampleSites
    /\ users_backup_file = MissingFile
    /\ hasher = NotRunning
    /\ session = EmptySession
    /\ resp = NoCall

NextSlices == call_create_production_by_country_pie_chart(1)

SpecSlices == InitSlices /\ [][NextSlices]_vars

\* the country id is the CountryID of a row of countries.csv
Resolves(country_id) ==
    \E i \in 1..Len(countries_file.rows) :
       countries_file.rows[i].CountryID = country_id

\* the name of the first row of countries.csv with the id
NameIn(country_id) ==
    countries_file.rows[CHOOSE i \in 1..Len(countries_file.rows) :
        /\ countries_file.rows[i].CountryID = country_id
        /\ \A j \in 1..(i - 1) : countries_file.rows[j].CountryID # country_id
      ].CountryName

RECURSIVE SumOf(_)
SumOf(numbers) == IF numbers = <<>> THEN 0 ELSE Head(numbers) + SumOf(Tail(numbers))

\* the groups of the dictionary whose country resolves, in order
ResolvingGroups(d) == SelectSeq(d, LAMBDA group : Resolves(group[1]))

\* C29: in the data of the pie chart a group whose country id is the id of
\* no Countries row is dropped with its sum; the labels and the values have
\* the same length and go together position by position (the k-th label is
\* the name of the k-th resolving group's country, the k-th value its sum);
\* and the values add up to the production of the mineral's rows whose
\* country resolves.
C29_AlignedSlices ==
    PieBuilt =>
       LET chart == resp.result.val
           groups == ResolvingGroups(chart.country_production)
           rows == SelectSeq(RowsOfMineral(resp.args[1]),
                             LAMBDA r : Resolves(r.CountryID))
       IN  /\ Len(chart.countries) = Len(chart.productions)
           /\ Len(chart.productions) = Len(groups)
           /\ \A k \in 1..Len(groups) :
                 /\ chart.countries[k] = NameIn(groups[k][1])
                 /\ chart.productions[k] = groups[k][2]
           /\ SumOf(chart.productions) =
                 SumOf([i \in 1..Len(rows) |-> rows[i].Production_tonnes])

\* a group between two resolving ones was dropped: two labels and two
\* values are left of three groups
C29_Witness ==
    /\ PieBuilt
    /\ Len(resp.result.val.country_production) = 3
    /\ ~ Resolves(resp.result.val.country_production[2][1])
    /\ Len(resp.result.val.countries) = 2
    /\ Len(resp.result.val.productions) = 2
    /\ resp.result.val.productions[2] = resp.result.val.country_production[3][2]

\* the text is a hash string
IsHashText(text) == Len(text) >= 2 /\ text[1] = "pbkdf2$"

\* a run of the utility has ended after its last statement, on a users.csv
\* that it could hash
RunCompleted ==
    /\ hasher.pc = "done"
    /\ hasher.halted = "no"
    /\ hasher.began_with.kind = "csv"
    /\ UserCols \subseteq hasher.began_with.columns

\* the user name is the one of no earlier row
FirstOfName(rws, i) == \A j \in 1..(i - 1) : rws[j].Username # rws[i].Username

\* what a completed run has made of row i: the stored value is a hash of
\* the value the row held, whether that was a password or already a hash;
\* the value the row held authenticates its user; and when it was already
\* a hash, the password it was made from no longer does, and the backup
\* holds the hashes
RehashedRow(i) ==
    LET before == hasher.began_with.rows[i].PasswordHash
        after == users_file.rows[i].PasswordHash
        username == hasher.began_with.rows[i].Username
    IN  /\ IsHashOf(after, before)
        /\ verify_password(after, before)
        /\ FirstOfName(hasher.began_with.rows, i) =>
              /\ ~ Raised(authenticate_user(username, before))
              /\ authenticate_user(username, before).val # None
        /\ IsHashText(before) =>
              /\ ~ verify_password(after, SubSeq(before, 3, Len(before)))
              /\ authenticate_user(username, SubSeq(before, 3, Len(before))) = Ret(None)
              /\ users_backup_file = hasher.began_with

\* C30: the utility hashes the PasswordHash value of every row, hash or
\* not.  After a run on passwords each password authenticates its user;
\* after a run on the hashes of an earlier run the stored value is a hash
\* of that hash string, the password no longer authenticates, and the
\* backup holds the earlier run's hashes.
C30_HashedWhateverItIs ==
    RunCompleted =>
       /\ Len(users_file.rows) = Len(hasher.began_with.rows)
       /\ \A i \in 1..Len(hasher.began_with.rows) : RehashedRow(i)

\* C30 for the rows whose text read_csv keeps as it is
C30_HashedWhateverTextItIs ==
    RunCompleted =>
       /\ Len(users_file.rows) = Len(hasher.began_with.rows)
       /\ \A i \in 1..Len(hasher.began_with.rows) :
             read_csv(hasher.began_with).val.rows[i].PasswordHash
                = hasher.began_with.rows[i].PasswordHash
             => RehashedRow(i)

\* the second run has ended: users.csv holds the hash of the hash of 'pw',
\* 'pw' is refused, and the backup holds the first run's hash
C30_HashedTwice ==
    /\ RunCompleted
    /\ hasher.run = 2
    /\ Len(users_file.rows) = 1
    /\ users_file.rows[1].PasswordHash =
          generate_password_hash(Salt, generate_password_hash(Salt, <<"p", "w">>))
    /\ authenticate_user(users_file.rows[1].Username, <<"p", "w">>) = Ret(None)
    /\ users_backup_file.rows[1].PasswordHash = generate_password_hash(Salt, <<"p", "w">>)

\* the first run has ended and the password 'pw' authenticates
C30_HashedOnce ==
    /\ RunCompleted
    /\ Len(users_file.rows) = 1
    /\ hasher.began_with.rows[1].PasswordHash = <<"p", "w">>
    /\ authenticate_user(users_file.rows[1].Username, <<"p", "w">>).val # None

====
